---- MODULE Spec2Model ----
(***************************************************************************)
(* A model of libvisa's asynchronous task subsystem and error classifier.  *)
(*                                                                         *)
(*   - the process-wide signal table IO_SIGNAL_TABLE with signal_done and  *)
(*     check_signal_done, at the granularity of the mutex (TableSpec);     *)
(*   - AsyncTask: read_async / write_async, poll, terminate, drop, and the *)
(*     completion handler the transport calls back (Spec);                 *)
(*   - Error::wrap_binding, Error::new and From<i32> for ErrorType         *)
(*     (ErrSpec).                                                          *)
(*                                                                         *)
(* The VISA library (the transport) is the environment.  It is modelled by *)
(* the contract the doc comments of session.rs quote from the VISA         *)
(* reference: handlers are identified by (handler, userHandle), every      *)
(* installed handler of an event type is invoked on every occurrence of    *)
(* the event, and viUninstallHandler removes the registrations whose       *)
(* handler and userHandle both match.                                      *)
(***************************************************************************)
EXTENDS Integers, Sequences, FiniteSets, TLC

(***************************************************************************)
(* Bounds of the model.                                                    *)
(***************************************************************************)
\* number of sessions
NumSessions == 1
\* job identifiers the transport hands out are 1..MaxJob
MaxJob == 2
\* number of AsyncTask objects created in one behaviour
MaxTasks == 2
\* the clock runs from 0 to MaxTime
MaxTime == 1
\* caller-supplied timeouts are 0..MaxTimeout
MaxTimeout == 1
\* threads that call check_signal_done concurrently (TableSpec)
NumPollers == 2
\* signal_done calls per (session, job) pair (TableSpec)
MaxSignals == 2
\* threads that call ResourceManager::new (RmSpec)
NumCallers == 2
\* calls of ResourceManager::new per thread (RmSpec)
MaxNewCalls == 2
\* strings in the list given to Session::write_all (CallSpec)
MaxStrings == 3
\* resources a search finds (SearchSpec)
MaxFound == 4
\* frames of Iterator::next the thread's stack has room for (SearchSpec)
MaxStack == 40

Sessions == 1..NumSessions
JobIds == 1..MaxJob
Tasks == 1..MaxTasks

(***************************************************************************)
(* Status codes.  A status is named by the bindings constant that holds    *)
(* it.  ViSuccessCodes, ViWarnCodes and ViErrorCodes are the completion    *)
(* and error codes the transport defines; OtherCodes stands for any value  *)
(* that is none of them.  They are the inputs of wrap_binding.             *)
(***************************************************************************)
ViSuccessCodes ==
    {
      "VI_SUCCESS", "VI_SUCCESS_EVENT_EN", "VI_SUCCESS_EVENT_DIS",
      "VI_SUCCESS_QUEUE_EMPTY", "VI_SUCCESS_TERM_CHAR", "VI_SUCCESS_MAX_CNT",
      "VI_SUCCESS_DEV_NPRESENT", "VI_SUCCESS_TRIG_MAPPED", "VI_SUCCESS_QUEUE_NEMPTY",
      "VI_SUCCESS_NCHAIN", "VI_SUCCESS_NESTED_SHARED", "VI_SUCCESS_NESTED_EXCLUSIVE",
      "VI_SUCCESS_SYNC"
    }

ViWarnCodes ==
    {
      "VI_WARN_QUEUE_OVERFLOW", "VI_WARN_CONFIG_NLOADED", "VI_WARN_NULL_OBJECT",
      "VI_WARN_NSUP_ATTR_STATE", "VI_WARN_UNKNOWN_STATUS", "VI_WARN_NSUP_BUF",
      "VI_WARN_EXT_FUNC_NIMPL"
    }

ViErrorCodes ==
    {
      "VI_ERROR_SYSTEM_ERROR", "VI_ERROR_INV_OBJECT", "VI_ERROR_RSRC_LOCKED",
      "VI_ERROR_INV_EXPR", "VI_ERROR_RSRC_NFOUND", "VI_ERROR_INV_RSRC_NAME",
      "VI_ERROR_INV_ACC_MODE", "VI_ERROR_TMO", "VI_ERROR_CLOSING_FAILED",
      "VI_ERROR_INV_DEGREE", "VI_ERROR_INV_JOB_ID", "VI_ERROR_NSUP_ATTR",
      "VI_ERROR_NSUP_ATTR_STATE", "VI_ERROR_ATTR_READONLY", "VI_ERROR_INV_LOCK_TYPE",
      "VI_ERROR_INV_ACCESS_KEY", "VI_ERROR_INV_EVENT", "VI_ERROR_INV_MECH",
      "VI_ERROR_HNDLR_NINSTALLED", "VI_ERROR_INV_HNDLR_REF", "VI_ERROR_INV_CONTEXT",
      "VI_ERROR_NENABLED", "VI_ERROR_ABORT", "VI_ERROR_RAW_WR_PROT_VIOL",
      "VI_ERROR_RAW_RD_PROT_VIOL", "VI_ERROR_OUTP_PROT_VIOL", "VI_ERROR_INP_PROT_VIOL",
      "VI_ERROR_BERR", "VI_ERROR_IN_PROGRESS", "VI_ERROR_INV_SETUP",
      "VI_ERROR_QUEUE_ERROR", "VI_ERROR_ALLOC", "VI_ERROR_INV_MASK",
      "VI_ERROR_IO", "VI_ERROR_INV_FMT", "VI_ERROR_NSUP_FMT",
      "VI_ERROR_LINE_IN_USE", "VI_ERROR_LINE_NRESERVED", "VI_ERROR_NSUP_MODE",
      "VI_ERROR_SRQ_NOCCURRED", "VI_ERROR_INV_SPACE", "VI_ERROR_INV_OFFSET",
      "VI_ERROR_INV_WIDTH", "VI_ERROR_NSUP_OFFSET", "VI_ERROR_NSUP_VAR_WIDTH",
      "VI_ERROR_WINDOW_NMAPPED", "VI_ERROR_RESP_PENDING", "VI_ERROR_NLISTENERS",
      "VI_ERROR_NCIC", "VI_ERROR_NSYS_CNTLR", "VI_ERROR_NSUP_OPER",
      "VI_ERROR_INTR_PENDING", "VI_ERROR_ASRL_PARITY", "VI_ERROR_ASRL_FRAMING",
      "VI_ERROR_ASRL_OVERRUN", "VI_ERROR_TRIG_NMAPPED", "VI_ERROR_NSUP_ALIGN_OFFSET",
      "VI_ERROR_USER_BUF", "VI_ERROR_RSRC_BUSY", "VI_ERROR_NSUP_WIDTH",
      "VI_ERROR_INV_PARAMETER", "VI_ERROR_INV_PROT", "VI_ERROR_INV_SIZE",
      "VI_ERROR_WINDOW_MAPPED", "VI_ERROR_NIMPL_OPER", "VI_ERROR_INV_LENGTH",
      "VI_ERROR_INV_MODE", "VI_ERROR_SESN_NLOCKED", "VI_ERROR_MEM_NSHARED",
      "VI_ERROR_LIBRARY_NFOUND", "VI_ERROR_NSUP_INTR", "VI_ERROR_INV_LINE",
      "VI_ERROR_FILE_ACCESS", "VI_ERROR_FILE_IO", "VI_ERROR_NSUP_LINE",
      "VI_ERROR_NSUP_MECH", "VI_ERROR_INTF_NUM_NCONFIG", "VI_ERROR_CONN_LOST",
      "VI_ERROR_NPERMISSION", "VI_ERROR_QUEUE_OVERFLOW", "VI_ERROR_MACHINE_NAVAIL"
    }

OtherCodes == { "UNDEFINED_POSITIVE", "UNDEFINED_NEGATIVE" }

StatusCodes == ViSuccessCodes \cup ViWarnCodes \cup ViErrorCodes \cup OtherCodes

(***************************************************************************)
(* error.rs                                                                *)
(***************************************************************************)
\* Error::ERROR_OK without its last entry
ERROR_OK_short ==
    {
      "VI_SUCCESS", "VI_SUCCESS_EVENT_EN", "VI_SUCCESS_EVENT_DIS",
      "VI_SUCCESS_QUEUE_EMPTY", "VI_SUCCESS_TERM_CHAR", "VI_SUCCESS_MAX_CNT",
      "VI_SUCCESS_DEV_NPRESENT", "VI_SUCCESS_TRIG_MAPPED", "VI_SUCCESS_QUEUE_NEMPTY",
      "VI_SUCCESS_NCHAIN", "VI_SUCCESS_NESTED_SHARED", "VI_SUCCESS_NESTED_EXCLUSIVE"
    }

\* Error::ERROR_OK: the statuses wrap_binding treats as success
ERROR_OK ==
    {
      "VI_SUCCESS", "VI_SUCCESS_EVENT_EN", "VI_SUCCESS_EVENT_DIS",
      "VI_SUCCESS_QUEUE_EMPTY", "VI_SUCCESS_TERM_CHAR", "VI_SUCCESS_MAX_CNT",
      "VI_SUCCESS_DEV_NPRESENT", "VI_SUCCESS_TRIG_MAPPED", "VI_SUCCESS_QUEUE_NEMPTY",
      "VI_SUCCESS_NCHAIN", "VI_SUCCESS_NESTED_SHARED", "VI_SUCCESS_NESTED_EXCLUSIVE",
      "VI_SUCCESS_SYNC"
    }

\* enum ErrorType: each variant with the status code that is its discriminant
ErrorType ==
    <<
      <<"SystemError", "VI_ERROR_SYSTEM_ERROR">>, <<"InvObject", "VI_ERROR_INV_OBJECT">>,
      <<"RsrcLocked", "VI_ERROR_RSRC_LOCKED">>, <<"InvExpr", "VI_ERROR_INV_EXPR">>,
      <<"RsrcNfound", "VI_ERROR_RSRC_NFOUND">>, <<"InvRsrcName", "VI_ERROR_INV_RSRC_NAME">>,
      <<"InvAccMode", "VI_ERROR_INV_ACC_MODE">>, <<"Tmo", "VI_ERROR_TMO">>,
      <<"ClosingFailed", "VI_ERROR_CLOSING_FAILED">>, <<"InvDegree", "VI_ERROR_INV_DEGREE">>,
      <<"InvJobId", "VI_ERROR_INV_JOB_ID">>, <<"NsupAttr", "VI_ERROR_NSUP_ATTR">>,
      <<"NsupAttrState", "VI_ERROR_NSUP_ATTR_STATE">>, <<"AttrReadonly", "VI_ERROR_ATTR_READONLY">>,
      <<"InvLockType", "VI_ERROR_INV_LOCK_TYPE">>, <<"InvAccessKey", "VI_ERROR_INV_ACCESS_KEY">>,
      <<"InvEvent", "VI_ERROR_INV_EVENT">>, <<"InvMech", "VI_ERROR_INV_MECH">>,
      <<"HndlrNinstalled", "VI_ERROR_HNDLR_NINSTALLED">>, <<"InvHndlrRef", "VI_ERROR_INV_HNDLR_REF">>,
      <<"InvContext", "VI_ERROR_INV_CONTEXT">>, <<"Nenabled", "VI_ERROR_NENABLED">>,
      <<"Abort", "VI_ERROR_ABORT">>, <<"RawWrProtViol", "VI_ERROR_RAW_WR_PROT_VIOL">>,
      <<"RawRdProtViol", "VI_ERROR_RAW_RD_PROT_VIOL">>, <<"OutpProtViol", "VI_ERROR_OUTP_PROT_VIOL">>,
      <<"InpProtViol", "VI_ERROR_INP_PROT_VIOL">>, <<"Berr", "VI_ERROR_BERR">>,
      <<"InProgress", "VI_ERROR_IN_PROGRESS">>, <<"InvSetup", "VI_ERROR_INV_SETUP">>,
      <<"QueueError", "VI_ERROR_QUEUE_ERROR">>, <<"Alloc", "VI_ERROR_ALLOC">>,
      <<"InvMask", "VI_ERROR_INV_MASK">>, <<"Io", "VI_ERROR_IO">>,
      <<"InvFmt", "VI_ERROR_INV_FMT">>, <<"NsupFmt", "VI_ERROR_NSUP_FMT">>,
      <<"LineInUse", "VI_ERROR_LINE_IN_USE">>, <<"LineNreserved", "VI_ERROR_LINE_NRESERVED">>,
      <<"NsupMode", "VI_ERROR_NSUP_MODE">>, <<"SrqNoccurred", "VI_ERROR_SRQ_NOCCURRED">>,
      <<"InvSpace", "VI_ERROR_INV_SPACE">>, <<"InvOffset", "VI_ERROR_INV_OFFSET">>,
      <<"InvWidth", "VI_ERROR_INV_WIDTH">>, <<"NsupOffset", "VI_ERROR_NSUP_OFFSET">>,
      <<"NsupVarWidth", "VI_ERROR_NSUP_VAR_WIDTH">>, <<"WindowNmapped", "VI_ERROR_WINDOW_NMAPPED">>,
      <<"RespPending", "VI_ERROR_RESP_PENDING">>, <<"Nlisteners", "VI_ERROR_NLISTENERS">>,
      <<"Ncic", "VI_ERROR_NCIC">>, <<"NsysCntlr", "VI_ERROR_NSYS_CNTLR">>,
      <<"NsupOper", "VI_ERROR_NSUP_OPER">>, <<"IntrPending", "VI_ERROR_INTR_PENDING">>,
      <<"AsrlParity", "VI_ERROR_ASRL_PARITY">>, <<"AsrlFraming", "VI_ERROR_ASRL_FRAMING">>,
      <<"AsrlOverrun", "VI_ERROR_ASRL_OVERRUN">>, <<"TrigNmapped", "VI_ERROR_TRIG_NMAPPED">>,
      <<"NsupAlignOffset", "VI_ERROR_NSUP_ALIGN_OFFSET">>, <<"UserBuf", "VI_ERROR_USER_BUF">>,
      <<"RsrcBusy", "VI_ERROR_RSRC_BUSY">>, <<"NsupWidth", "VI_ERROR_NSUP_WIDTH">>,
      <<"InvParameter", "VI_ERROR_INV_PARAMETER">>, <<"InvProt", "VI_ERROR_INV_PROT">>,
      <<"InvSize", "VI_ERROR_INV_SIZE">>, <<"WindowMapped", "VI_ERROR_WINDOW_MAPPED">>,
      <<"NimplOper", "VI_ERROR_NIMPL_OPER">>, <<"InvLength", "VI_ERROR_INV_LENGTH">>,
      <<"InvMode", "VI_ERROR_INV_MODE">>, <<"SesnNlocked", "VI_ERROR_SESN_NLOCKED">>,
      <<"MemNshared", "VI_ERROR_MEM_NSHARED">>, <<"LibraryNfound", "VI_ERROR_LIBRARY_NFOUND">>,
      <<"NsupIntr", "VI_ERROR_NSUP_INTR">>, <<"InvLine", "VI_ERROR_INV_LINE">>,
      <<"FileAccess", "VI_ERROR_FILE_ACCESS">>, <<"FileIo", "VI_ERROR_FILE_IO">>,
      <<"NsupLine", "VI_ERROR_NSUP_LINE">>, <<"NsupMech", "VI_ERROR_NSUP_MECH">>,
      <<"IntfNumNconfig", "VI_ERROR_INTF_NUM_NCONFIG">>, <<"ConnLost", "VI_ERROR_CONN_LOST">>,
      <<"Npermission", "VI_ERROR_NPERMISSION">>
    >>

ErrorTypeVariants == { ErrorType[k][1] : k \in 1..Len(ErrorType) }

\* `variant as i32`
ErrorTypeAsI32(v) ==
    LET k == CHOOSE k \in 1..Len(ErrorType) : ErrorType[k][1] = v
    IN  ErrorType[k][2]

\* the arms of From<i32> for ErrorType, in source order:
\* <<A, B>> is the arm  x if x == ErrorType::A as i32 => ErrorType::B
FromArms ==
    <<
      <<"SystemError", "SystemError">>, <<"InvObject", "InvObject">>, <<"RsrcLocked", "RsrcLocked">>,
      <<"InvExpr", "InvExpr">>, <<"RsrcNfound", "RsrcNfound">>, <<"InvRsrcName", "InvRsrcName">>,
      <<"InvAccMode", "InvAccMode">>, <<"Tmo", "Tmo">>, <<"ClosingFailed", "ClosingFailed">>,
      <<"InvDegree", "InvDegree">>, <<"InvJobId", "InvJobId">>, <<"NsupAttr", "NsupAttr">>,
      <<"NsupAttrState", "NsupAttrState">>, <<"AttrReadonly", "AttrReadonly">>, <<"InvLockType", "InvLockType">>,
      <<"InvAccessKey", "InvAccessKey">>, <<"InvEvent", "InvEvent">>, <<"InvMech", "InvMech">>,
      <<"HndlrNinstalled", "HndlrNinstalled">>, <<"InvHndlrRef", "InvHndlrRef">>, <<"InvContext", "InvContext">>,
      <<"Nenabled", "Nenabled">>, <<"Abort", "Abort">>, <<"RawWrProtViol", "RawWrProtViol">>,
      <<"RawRdProtViol", "RawRdProtViol">>, <<"OutpProtViol", "OutpProtViol">>, <<"InpProtViol", "InpProtViol">>,
      <<"Berr", "Berr">>, <<"InProgress", "InProgress">>, <<"InvSetup", "InvSetup">>,
      <<"QueueError", "QueueError">>, <<"Alloc", "Alloc">>, <<"InvMask", "InvMask">>,
      <<"Io", "Io">>, <<"InvFmt", "InvFmt">>, <<"NsupFmt", "NsupFmt">>,
      <<"LineInUse", "LineInUse">>, <<"LineNreserved", "LineNreserved">>, <<"NsupMode", "NsupMode">>,
      <<"SrqNoccurred", "SrqNoccurred">>, <<"InvSpace", "InvSpace">>, <<"InvOffset", "InvOffset">>,
      <<"InvWidth", "InvWidth">>, <<"NsupOffset", "NsupOffset">>, <<"NsupVarWidth", "NsupVarWidth">>,
      <<"WindowNmapped", "WindowNmapped">>, <<"RespPending", "RespPending">>, <<"Nlisteners", "Nlisteners">>,
      <<"Ncic", "Ncic">>, <<"NsysCntlr", "NsysCntlr">>, <<"NsupOper", "NsupOper">>,
      <<"IntrPending", "IntrPending">>, <<"AsrlParity", "AsrlParity">>, <<"AsrlFraming", "AsrlFraming">>,
      <<"AsrlOverrun", "AsrlOverrun">>, <<"TrigNmapped", "TrigNmapped">>, <<"NsupAlignOffset", "NsupAlignOffset">>,
      <<"UserBuf", "UserBuf">>, <<"RsrcBusy", "RsrcBusy">>, <<"NsupWidth", "NsupWidth">>,
      <<"InvParameter", "InvParameter">>, <<"InvProt", "InvProt">>, <<"InvSize", "InvSize">>,
      <<"WindowMapped", "WindowMapped">>, <<"NimplOper", "NimplOper">>, <<"InvLength", "InvLength">>,
      <<"InvMode", "InvMode">>, <<"SesnNlocked", "SesnNlocked">>, <<"MemNshared", "MemNshared">>,
      <<"LibraryNfound", "LibraryNfound">>, <<"NsupIntr", "NsupIntr">>, <<"InvLine", "InvLine">>,
      <<"FileAccess", "FileAccess">>, <<"FileIo", "FileIo">>, <<"NsupLine", "NsupLine">>,
      <<"NsupMech", "NsupMech">>, <<"IntfNumNconfig", "IntfNumNconfig">>, <<"ConnLost", "ConnLost">>,
      <<"Npermission", "Npermission">>
    >>

\* From<i32> for ErrorType: the first arm whose guard holds, else SystemError
ErrorTypeFrom(value) ==
    LET hits == { k \in 1..Len(FromArms) : ErrorTypeAsI32(FromArms[k][1]) = value }
    IN  IF hits = {}
        THEN "SystemError"
        ELSE FromArms[CHOOSE k \in hits : \A m \in hits : k <= m][2]

\* Option<T>: None is <<>>, Some(x) is <<x>>
None == <<>>
Some(x) == <<x>>

\* Error::default()
ErrorDefault == [status |-> "SystemError", description |-> None]

\* an Error::new that takes the description buffer whatever viStatusDesc returned
ErrorNew_unchecked_fetch(raw_status, session, desc_status) ==
    IF raw_status \in ERROR_OK
    THEN ErrorDefault
    ELSE IF session # None
         THEN [status |-> ErrorTypeFrom(raw_status),
               description |-> Some(<<"viStatusDesc", raw_status>>)]
         ELSE [status |-> ErrorTypeFrom(raw_status), description |-> None]

\* Error::new(raw_status, session); desc_status is what viStatusDesc returns
ErrorNew(raw_status, session, desc_status) ==
    IF raw_status \in ERROR_OK
    THEN ErrorDefault
    ELSE IF session # None
         THEN [status |-> ErrorTypeFrom(raw_status),
               description |-> IF desc_status \in ERROR_OK
                               THEN Some(<<"viStatusDesc", raw_status>>)
                               ELSE None]
         ELSE [status |-> ErrorTypeFrom(raw_status), description |-> None]

Ok == [tag |-> "Ok"]
Err(e) == [tag |-> "Err", error |-> e]

\* Error::wrap_binding(session, f) where f() returned status
wrap_binding(session, status, desc_status) ==
    IF status \in ERROR_OK
    THEN Ok
    ELSE Err(ErrorNew(status, session, desc_status))

(***************************************************************************)
(* State.                                                                  *)
(***************************************************************************)
VARIABLES
    table,      \* IO_SIGNAL_TABLE: the set of (session, job) pairs signalled done
    mutex,      \* Some(owner) of the table's Mutex, or NoOwner
    thr,        \* per thread inside signal_done / check_signal_done: pc, arg, found
    marks,      \* history: signal_done calls completed, per pair
    trues,      \* history: check_signal_done calls that returned true, per pair
    fresh,      \* history: signal_done calls since the last check_signal_done, per pair
    grants,     \* history: true returns since the last signal_done, per pair
    last,       \* history: <<result, fresh before>> of the last check_signal_done, per pair, or None
    now,        \* the wall clock (Instant::now)
    task,       \* per AsyncTask: position in its life cycle and its fields
    xjob,       \* transport: state of the job started for each task
    handlers,   \* transport: installed IoCompletion registrations
    enabled,    \* transport: sessions with IoCompletion enabled for VI_HNDLR
    dispatch,   \* transport: registrations still to be called for the current event
    hist,       \* history per task: last poll result, terminate() result, calls issued
    errIn,      \* wrap_binding: the inputs (status, session, viStatusDesc status)
    errOut,     \* wrap_binding: Some(result), or None before the call
    call,       \* one library call under study: <<operation, inputs...>>
    ret,        \* Some(result) of that call, or None before it ran
    issued,     \* what the call did on the way: transport calls, handler calls, reads
    singleton,  \* SINGLETON_RM_ID: Option<ViSession>
    rm,         \* per thread inside ResourceManager::new: pc and the id it holds
    opened,     \* transport: number of default resource managers opened so far
    search      \* one ResourceManager::search and the loop over its result

tableVars == <<table, mutex, thr, marks, trues, fresh, grants, last>>
asyncVars == <<now, task, xjob, handlers, enabled, dispatch, hist>>
errVars == <<errIn, errOut>>
callVars == <<call, ret, issued>>
rmVars == <<singleton, rm, opened>>
extVars == <<call, ret, issued, singleton, rm, opened, search>>
auxVars == <<mutex, thr, marks, trues, fresh, grants, last>>
vars == <<table, mutex, thr, marks, trues, fresh, grants, last,
          now, task, xjob, handlers, enabled, dispatch, hist, errIn, errOut,
          call, ret, issued, singleton, rm, opened, search>>

(***************************************************************************)
(* session.rs: the signal table.                                           *)
(***************************************************************************)
\* user data read through a dangling pointer may hold any ViJobId; JunkJob
\* stands for every value that is no job id of the model.  The table of the
\* model holds the pairs of the model's job ids only.
JunkJob == MaxJob + 1
Pairs == Sessions \X JobIds

NoOwner == None
\* the transport's callback thread is thread 0, the polling threads 1..NumPollers
TransportThread == 0
Pollers == 1..NumPollers
Threads == {TransportThread} \cup Pollers

\* HashSet::insert that removes an element already present
HashSetToggle(tbl, p) == IF p \in tbl THEN tbl \ {p} ELSE tbl \cup {p}

\* HashSet::insert
HashSetInsert(tbl, p) == tbl \cup {p}

\* HashSet::contains; the first half of HashSet::remove
HashSetContains(tbl, p) == p \in tbl

\* a remove that leaves the element in the set
HashSetKeep(tbl, p) == tbl

\* HashSet::remove: the set afterwards (it returns HashSetContains)
HashSetRemove(tbl, p) == tbl \ {p}

\* signal_done(session, job_id) as one step: the table afterwards
signal_done(tbl, session, job_id) ==
    IF job_id = JunkJob THEN tbl ELSE HashSetInsert(tbl, <<session, job_id>>)

\* a lookup under a key that is not the task's (session, job) pair
check_signal_done_other_key(tbl, session, job_id) == HashSetContains(tbl, <<session, job_id + 1>>)

\* check_signal_done(session, job_id) as one step: the value it returns
check_signal_done(tbl, session, job_id) == HashSetContains(tbl, <<session, job_id>>)

\* check_signal_done(session, job_id) as one step: the table afterwards
check_signal_done_table(tbl, session, job_id) == HashSetRemove(tbl, <<session, job_id>>)

\* a lock() that does not wait for the owner to release
CanLockAlways(t) == TRUE

\* IO_SIGNAL_TABLE.lock(): the Mutex is acquired only when it is free
CanLock(t) == mutex = NoOwner

Idle == [pc |-> "idle", arg |-> <<0, 0>>, found |-> FALSE]

TableInit ==
    /\ table = {}
    /\ mutex = NoOwner
    /\ thr = [t \in Threads |-> Idle]
    /\ marks = [p \in Pairs |-> 0]
    /\ trues = [p \in Pairs |-> 0]
    /\ fresh = [p \in Pairs |-> 0]
    /\ grants = [p \in Pairs |-> 0]
    /\ last = [p \in Pairs |-> None]

\* signal_done, line 23: lock the table
SignalLock(p) ==
    /\ thr[TransportThread].pc = "idle"
    /\ marks[p] < MaxSignals
    /\ CanLock(TransportThread)
    /\ mutex' = Some(TransportThread)
    /\ thr' = [thr EXCEPT ![TransportThread] = [pc |-> "sig_locked", arg |-> p, found |-> FALSE]]
    /\ UNCHANGED <<table, marks, trues, fresh, grants, last>>
    /\ UNCHANGED <<asyncVars, errVars, extVars>>

\* signal_done, lines 24-25: insert, then the guard is dropped
SignalInsert ==
    /\ thr[TransportThread].pc = "sig_locked"
    /\ LET p == thr[TransportThread].arg IN
        /\ table' = HashSetInsert(table, p)
        /\ marks' = [marks EXCEPT ![p] = @ + 1]
        /\ fresh' = [fresh EXCEPT ![p] = @ + 1]
        /\ grants' = [grants EXCEPT ![p] = 0]
    /\ mutex' = NoOwner
    /\ thr' = [thr EXCEPT ![TransportThread] = Idle]
    /\ UNCHANGED <<trues, last>>
    /\ UNCHANGED <<asyncVars, errVars, extVars>>

\* check_signal_done, line 28: lock the table
CheckLock(t, p) ==
    /\ thr[t].pc = "idle"
    /\ CanLock(t)
    /\ mutex' = Some(t)
    /\ thr' = [thr EXCEPT ![t] = [pc |-> "chk_locked", arg |-> p, found |-> FALSE]]
    /\ UNCHANGED <<table, marks, trues, fresh, grants, last>>
    /\ UNCHANGED <<asyncVars, errVars, extVars>>

\* check_signal_done, line 29: remove looks the pair up ...
CheckProbe(t) ==
    /\ thr[t].pc = "chk_locked"
    /\ thr' = [thr EXCEPT ![t].pc = "chk_probed",
                          ![t].found = HashSetContains(table, thr[t].arg)]
    /\ UNCHANGED <<table, mutex, marks, trues, fresh, grants, last>>
    /\ UNCHANGED <<asyncVars, errVars, extVars>>

\* ... and erases it when found; the guard is dropped and found is returned
CheckErase(t) ==
    /\ thr[t].pc = "chk_probed"
    /\ LET p == thr[t].arg
           r == thr[t].found
       IN
        /\ table' = IF r THEN HashSetRemove(table, p) ELSE table
        /\ trues' = [trues EXCEPT ![p] = IF r THEN @ + 1 ELSE @]
        /\ grants' = [grants EXCEPT ![p] = IF r THEN @ + 1 ELSE @]
        /\ last' = [last EXCEPT ![p] = <<r, fresh[p]>>]
        /\ fresh' = [fresh EXCEPT ![p] = 0]
    /\ mutex' = NoOwner
    /\ thr' = [thr EXCEPT ![t] = Idle]
    /\ UNCHANGED marks
    /\ UNCHANGED <<asyncVars, errVars, extVars>>

TableNext ==
    \/ \E p \in Pairs : SignalLock(p)
    \/ SignalInsert
    \/ \E t \in Pollers, p \in Pairs : CheckLock(t, p)
    \/ \E t \in Pollers : CheckProbe(t)
    \/ \E t \in Pollers : CheckErase(t)

(***************************************************************************)
(* session.rs: AsyncTask and the transport it talks to.                    *)
(***************************************************************************)
Timeouts == 0..MaxTimeout

\* the handler reference every AsyncTask installs: <AsyncTask as HandlerWithData>::into()
AsyncTaskHandler == "AsyncTask::c_handler"

\* add_event_handler, lines 609-615: the context handed to viInstallHandler is
\* the address of the local binding `user_data` of that call, made for task i
InstallContext(i) == <<"frame", i>>

\* terminate_task, line 851: the context handed to viUninstallHandler is the
\* address of the field job_id of task i
TerminateContext(i) == <<"field", i>>

\* The frame of add_event_handler is gone when terminate_task runs: where
\* the task then lives may be a fresh address, or by accident of the stack
\* layout the address some frame had.
UninstallContexts(i) == {TerminateContext(i)} \cup {<<"frame", k>> : k \in 1..MaxTasks}

Registration(s, ctx) == [session |-> s, handler |-> AsyncTaskHandler, context |-> ctx]

HandlersOn(s) == { r \in handlers : r.session = s }

\* c_handler, lines 126-127: the values `&*user_data` may hold.  A frame
\* address is dangling once add_event_handler has returned, and so is the
\* field of a task that no longer exists: such a read may yield anything.
UserDataValues(ctx) ==
    IF ctx[1] = "field" /\ task[ctx[2]].pc \notin {"none", "started", "failed", "dropped"}
    THEN {task[ctx[2]].job_id}
    ELSE JobIds \cup {JunkJob}

NoTask == [pc |-> "none", session |-> 0, job_id |-> 0, started |-> 0, timeout |-> 0]
NoHist == [poll |-> "Pending", term |-> "None"]

AsyncInit ==
    /\ now = 0
    /\ task = [i \in Tasks |-> NoTask]
    /\ xjob = [i \in Tasks |-> "none"]
    /\ handlers = {}
    /\ enabled = [s \in Sessions |-> FALSE]
    /\ dispatch = {}
    /\ hist = [i \in Tasks |-> NoHist]

ErrIdle ==
    /\ errIn = <<"VI_SUCCESS", None, "VI_SUCCESS">>
    /\ errOut = None

\* no library call under study
CallIdle ==
    /\ call = <<"idle">>
    /\ ret = None
    /\ issued = <<>>

\* no thread inside ResourceManager::new, nothing opened
RmIdle ==
    /\ singleton = None
    /\ rm = <<>>
    /\ opened = 0

\* no search is under way
NoSearch == [pc |-> "none"]
SearchIdle == search = NoSearch

\* the kind of a Result: "Ok", or the ErrorType of the error
Kind(result) == IF result.tag = "Ok" THEN "Ok" ELSE result.error.status

\* the task whose running job has identifier j on session s, if any
RunningOwner(s, j) ==
    { k \in Tasks : xjob[k] = "running" /\ task[k].session = s /\ task[k].job_id = j }

RunningIds(s) == { task[k].job_id : k \in { k \in Tasks : xjob[k] = "running" /\ task[k].session = s } }

\* the job ids the transport has handed out on session s.  Job ids are
\* opaque: the model names them in the order of their first use.
UsedIds(s) == { task[k].job_id : k \in { k \in Tasks : task[k].session = s } }

\* The caller's thread makes one call at a time: while a call of read_async,
\* terminate or drop is between two transport calls, only the transport's
\* thread and the clock take steps.
MidCall == {"started", "term_uninstall", "term_ret", "term_drop_uninstall", "drop_uninstall"}
CallerFree == \A k \in Tasks : task[k].pc \notin MidCall

\* Instant::now() advances
Tick ==
    /\ now < MaxTime
    /\ now' = now + 1
    /\ UNCHANGED <<table, task, xjob, handlers, enabled, dispatch, hist>>
    /\ UNCHANGED <<auxVars, errVars, extVars>>

\* read_async / write_async, first call: viReadAsync / viWriteAsync returns
\* status st and, on success, the job id j it assigned
StartAsync(i, s, tmo, st, j) ==
    /\ CallerFree
    /\ task[i].pc = "none"
    /\ \A k \in Tasks : k < i => task[k].pc # "none"
    /\ j \notin RunningIds(s)
    /\ j <= 1 + Cardinality(UsedIds(s))
    /\ LET res == wrap_binding(Some(s), st, "VI_SUCCESS") IN
       IF res.tag = "Ok"
       THEN /\ task' = [task EXCEPT ![i] = [pc |-> "started", session |-> s, job_id |-> j,
                                            started |-> 0, timeout |-> tmo]]
            /\ xjob' = [xjob EXCEPT ![i] = "running"]
            /\ hist' = hist
       ELSE \* Err is returned: no job, no task
            /\ UNCHANGED <<task, hist, xjob>>
    /\ UNCHANGED <<table, now, handlers, enabled, dispatch>>
    /\ UNCHANGED <<auxVars, errVars, extVars>>

\* read_async / write_async, second call: add_event_handler returns status
\* st; on success the AsyncTask is built and returned
InstallAsync(i, st) ==
    /\ task[i].pc = "started"
    /\ LET s == task[i].session
           res == wrap_binding(Some(s), st, "VI_SUCCESS")
       IN
       IF res.tag = "Ok"
       THEN /\ handlers' = handlers \cup {Registration(s, InstallContext(i))}
            /\ task' = [task EXCEPT ![i].pc = "pending", ![i].started = now]
            /\ hist' = hist
       ELSE /\ handlers' = handlers
            /\ task' = [task EXCEPT ![i].pc = "failed"]
            /\ hist' = hist
    /\ UNCHANGED <<table, now, xjob, enabled, dispatch>>
    /\ UNCHANGED <<auxVars, errVars, extVars>>

\* enable_event(IoCompletion, Handler): the transport requires a handler to
\* be installed
EnableEvent(s) ==
    /\ CallerFree
    /\ ~enabled[s]
    /\ HandlersOn(s) # {}
    /\ enabled' = [enabled EXCEPT ![s] = TRUE]
    /\ UNCHANGED <<table, now, task, xjob, handlers, dispatch, hist>>
    /\ UNCHANGED <<auxVars, errVars, extVars>>

\* the transport finishes the job started for task i and raises the
\* IoCompletion event on its session: every handler installed there is due
JobCompletes(i) ==
    /\ xjob[i] = "running"
    /\ dispatch = {}
    /\ xjob' = [xjob EXCEPT ![i] = "done"]
    /\ dispatch' = IF enabled[task[i].session] THEN HandlersOn(task[i].session) ELSE {}
    /\ UNCHANGED <<table, now, task, handlers, enabled, hist>>
    /\ UNCHANGED <<auxVars, errVars, extVars>>

\* the transport raises the IoCompletion event of an aborted job
AbortCompletes(i) ==
    /\ xjob[i] = "aborted"
    /\ dispatch = {}
    /\ xjob' = [xjob EXCEPT ![i] = "done"]
    /\ dispatch' = IF enabled[task[i].session] THEN HandlersOn(task[i].session) ELSE {}
    /\ UNCHANGED <<table, now, task, handlers, enabled, hist>>
    /\ UNCHANGED <<auxVars, errVars, extVars>>

\* c_handler then AsyncTask::handle: the job id is read from the user data
\* and signalled done for the session the transport names
HandlerCall(r, v) ==
    /\ r \in dispatch
    /\ v \in UserDataValues(r.context)
    /\ table' = signal_done(table, r.session, v)
    /\ dispatch' = dispatch \ {r}
    /\ UNCHANGED <<now, task, xjob, handlers, enabled, hist>>
    /\ UNCHANGED <<auxVars, errVars, extVars>>

\* a poll that looks at the clock before it looks at the table
poll_clock_first(tbl, t, clock) ==
    IF clock - t.started > t.timeout
    THEN "TimedOut"
    ELSE IF check_signal_done(tbl, t.session, t.job_id)
         THEN "Completed"
         ELSE "Pending"

\* a poll whose deadline test is not strict
poll_non_strict(tbl, t, clock) ==
    IF check_signal_done(tbl, t.session, t.job_id)
    THEN "Completed"
    ELSE IF clock - t.started >= t.timeout
         THEN "TimedOut"
         ELSE "Pending"

\* Future::poll: what it returns for table tbl at time clock
poll(tbl, t, clock) ==
    IF check_signal_done(tbl, t.session, t.job_id)
    THEN "Completed"
    ELSE IF clock - t.started > t.timeout
         THEN "TimedOut"
         ELSE "Pending"

Poll(i) ==
    /\ CallerFree
    /\ task[i].pc = "pending"
    /\ hist' = [hist EXCEPT ![i].poll = poll(table, task[i], now)]
    /\ table' = check_signal_done_table(table, task[i].session, task[i].job_id)
    /\ UNCHANGED <<now, task, xjob, handlers, enabled, dispatch>>
    /\ UNCHANGED <<auxVars, errVars, extVars>>

\* viTerminate(session, 0, job_id): the statuses the transport may return
ViTerminateStatuses(s, j) ==
    IF RunningOwner(s, j) # {}
    THEN {"VI_SUCCESS"}
    ELSE {"VI_SUCCESS", "VI_ERROR_INV_JOB_ID"}

\* viTerminate(session, 0, job_id): the jobs afterwards
ViTerminateJobs(s, j) ==
    [k \in Tasks |-> IF k \in RunningOwner(s, j) THEN "aborted" ELSE xjob[k]]

\* viUninstallHandler(session, IoCompletion, handler, context): the
\* registrations whose handler and context both match
Matching(s, h, ctx) ==
    { r \in HandlersOn(s) : r.handler = h /\ r.context = ctx }

\* viUninstallHandler: the status it returns
ViUninstallStatus(s, h, ctx) ==
    IF Matching(s, h, ctx) # {}
    THEN "VI_SUCCESS"
    ELSE IF HandlersOn(s) = {} THEN "VI_ERROR_HNDLR_NINSTALLED" ELSE "VI_ERROR_INV_HNDLR_REF"

\* task record t at position pc; a dropped task keeps only the identity of
\* its job, its other fields are gone
Moved(t, pc) ==
    IF pc = "dropped"
    THEN [pc |-> pc, session |-> t.session, job_id |-> t.job_id, started |-> 0, timeout |-> 0]
    ELSE [t EXCEPT !.pc = pc]

\* a terminate_task that goes on to the uninstall whatever viTerminate returned
TerminateTaskAbort_ignoring_status(i, st, via, next, explicit) ==
    LET s == task[i].session
        j == task[i].job_id
    IN
    /\ st \in ViTerminateStatuses(s, j)
    /\ xjob' = ViTerminateJobs(s, j)
    /\ task' = [task EXCEPT ![i].pc = via]
    /\ hist' = hist
    /\ UNCHANGED <<table, now, handlers, enabled, dispatch>>
    /\ UNCHANGED <<auxVars, errVars, extVars>>

\* terminate_task, lines 846-848: viTerminate returns st.  next is where the
\* task goes when `?` returns the error, via is where it goes on to uninstall.
TerminateTaskAbort(i, st, via, next, explicit) ==
    LET s == task[i].session
        j == task[i].job_id
        res == wrap_binding(Some(s), st, "VI_SUCCESS")
    IN
    /\ st \in ViTerminateStatuses(s, j)
    /\ xjob' = ViTerminateJobs(s, j)
    /\ task' = [task EXCEPT ![i] = IF res.tag = "Ok" THEN [@ EXCEPT !.pc = via] ELSE Moved(@, next)]
    /\ hist' = [hist EXCEPT ![i] = IF res.tag = "Ok" THEN @
                                     ELSE IF explicit THEN [@ EXCEPT !.term = Kind(res)]
                                     ELSE NoHist]
    /\ UNCHANGED <<table, now, handlers, enabled, dispatch>>
    /\ UNCHANGED <<auxVars, errVars, extVars>>

\* terminate_task, lines 851-860: viUninstallHandler with the address of
\* self.job_id as context
TerminateTaskUninstall(i, ctx, next, explicit) ==
    LET s == task[i].session
        st == ViUninstallStatus(s, AsyncTaskHandler, ctx)
        res == wrap_binding(Some(s), st, "VI_SUCCESS")
    IN
    /\ handlers' = handlers \ Matching(s, AsyncTaskHandler, ctx)
    /\ dispatch' = dispatch \ Matching(s, AsyncTaskHandler, ctx)
    /\ task' = [task EXCEPT ![i] = Moved(@, next)]
    /\ hist' = [hist EXCEPT ![i] = IF explicit THEN [@ EXCEPT !.term = Kind(res)] ELSE NoHist]
    /\ UNCHANGED <<table, now, xjob, enabled>>
    /\ UNCHANGED <<auxVars, errVars, extVars>>

\* AsyncTask::terminate(self): terminate_task, then self is dropped
TerminateAbort(i, st) ==
    /\ CallerFree
    /\ task[i].pc = "pending"
    /\ TerminateTaskAbort(i, st, "term_uninstall", "term_ret", TRUE)

TerminateUninstall(i, ctx) ==
    /\ task[i].pc = "term_uninstall"
    /\ TerminateTaskUninstall(i, ctx, "term_ret", TRUE)

\* Drop for AsyncTask: terminate_task().ok(), for a task the caller drops
\* and for the self that terminate() consumed
DropAbort(i, st) ==
    /\ task[i].pc \in {"pending", "term_ret"}
    /\ task[i].pc = "pending" => CallerFree
    /\ TerminateTaskAbort(i, st, IF task[i].pc = "pending" THEN "drop_uninstall" ELSE "term_drop_uninstall",
                          "dropped", FALSE)

DropUninstall(i, ctx) ==
    /\ task[i].pc \in {"drop_uninstall", "term_drop_uninstall"}
    /\ TerminateTaskUninstall(i, ctx, "dropped", FALSE)

\* statuses the transport may return from viReadAsync / viWriteAsync and
\* from viInstallHandler
StartStatuses == {"VI_SUCCESS", "VI_SUCCESS_SYNC", "VI_ERROR_TMO"}
InstallStatuses == {"VI_SUCCESS", "VI_ERROR_HNDLR_NINSTALLED"}

Next ==
    \/ Tick
    \/ \E i \in Tasks, s \in Sessions, tmo \in Timeouts, st \in StartStatuses, j \in JobIds :
          StartAsync(i, s, tmo, st, j)
    \/ \E i \in Tasks, st \in InstallStatuses : InstallAsync(i, st)
    \/ \E s \in Sessions : EnableEvent(s)
    \/ \E i \in Tasks : JobCompletes(i)
    \/ \E i \in Tasks : AbortCompletes(i)
    \/ \E r \in handlers, v \in JobIds \cup {JunkJob} : HandlerCall(r, v)
    \/ \E i \in Tasks : Poll(i)
    \/ \E i \in Tasks, st \in {"VI_SUCCESS", "VI_ERROR_INV_JOB_ID"} : TerminateAbort(i, st)
    \/ \E i \in Tasks : \E ctx \in UninstallContexts(i) : TerminateUninstall(i, ctx)
    \/ \E i \in Tasks, st \in {"VI_SUCCESS", "VI_ERROR_INV_JOB_ID"} : DropAbort(i, st)
    \/ \E i \in Tasks : \E ctx \in UninstallContexts(i) : DropUninstall(i, ctx)

Init == TableInit /\ AsyncInit /\ ErrIdle /\ CallIdle /\ RmIdle /\ SearchIdle

Spec == Init /\ [][Next]_vars

TableSpecInit == TableInit /\ AsyncInit /\ ErrIdle /\ CallIdle /\ RmIdle /\ SearchIdle
TableSpec == TableSpecInit /\ [][TableNext]_vars

(***************************************************************************)
(* error.rs: wrap_binding over every status.                               *)
(***************************************************************************)
\* viStatusDesc may itself succeed or fail
DescStatuses == {"VI_SUCCESS", "VI_WARN_UNKNOWN_STATUS"}

ErrInit ==
    /\ errIn \in StatusCodes \X ({None} \cup {Some(s) : s \in Sessions}) \X DescStatuses
    /\ errOut = None

\* Error::wrap_binding(session, || status)
WrapBindingCall ==
    /\ errOut = None
    /\ errOut' = Some(wrap_binding(errIn[2], errIn[1], errIn[3]))
    /\ errIn' = errIn
    /\ UNCHANGED <<tableVars, asyncVars, extVars>>

ErrSpecInit == TableInit /\ AsyncInit /\ ErrInit /\ CallIdle /\ RmIdle /\ SearchIdle
ErrNext == WrapBindingCall

ErrSpec == ErrSpecInit /\ [][ErrNext]_vars

(***************************************************************************)
(* The signal table: signal_done and check_signal_done (TableSpec).        *)
(***************************************************************************)
\* C1 (as the code has it).  For every (session, job) pair,
\* check_signal_done returns true exactly when at least one signal_done for
\* that pair has happened since the previous check_signal_done for it; any
\* number of signal_done calls between two checks count as one.  So it
\* returns false on every call that follows a check until another
\* signal_done, and it never returns true more often than signal_done was
\* called.
C1_TrueIffSignalledSinceLastCheck ==
    \A p \in Pairs :
        /\ trues[p] <= marks[p]
        /\ last[p] # None => (last[p][1] <=> last[p][2] > 0)

\* two signal_done calls for one pair were answered by a single true
C1_Witness ==
    \E p \in Pairs : marks[p] = 2 /\ trues[p] = 1 /\ last[p] = <<TRUE, 2>>

\* C1 as stated: check_signal_done returns true exactly once per signal_done
\* call.  When no call is under way and the pair is not in the table, every
\* signal_done has then been answered by one true of its own.
C1_OncePerSignal ==
    \A p \in Pairs :
        (p \notin table /\ \A t \in Threads : thr[t].pc = "idle") => trues[p] = marks[p]

\* C2.  check_signal_done is an atomic check-and-remove under the table's
\* mutex: whatever threads call it and however their steps interleave with
\* signal_done on the transport's thread, at most one call returns true for a
\* pair between one signal_done for the pair and the next.
C2_AtMostOneTruePerCompletion ==
    \A p \in Pairs : grants[p] <= 1

\* after one poller was answered true, another poller inside
\* check_signal_done for the same pair has found nothing
C2_Witness ==
    \E p \in Pairs, t \in Pollers :
        /\ grants[p] = 1
        /\ marks[p] = 1
        /\ thr[t].pc = "chk_probed" /\ thr[t].arg = p /\ ~thr[t].found

\* C3.  signal_done is an idempotent insert: a signal_done for a pair that is
\* already in the table leaves the table as it is, and once a check has
\* consumed the pair (no signal_done since) the pair is not in the table, so
\* the consumer of a double signal_done sees one true and then false.
C3_SignalDoneIdempotent ==
    /\ [][(SignalInsert /\ thr[TransportThread].arg \in table) => table' = table]_vars
    /\ [](\A p \in Pairs : fresh[p] = 0 => p \notin table)

\* signal_done twice, then one true, then false
C3_Witness ==
    \E p \in Pairs :
        marks[p] = 2 /\ trues[p] = 1 /\ fresh[p] = 0 /\ last[p] = <<FALSE, 0>>

(***************************************************************************)
(* AsyncTask (Spec).                                                       *)
(***************************************************************************)
\* C4.  A poll of an AsyncTask with no completion recorded for its (session,
\* job) returns Pending while less than its timeout has elapsed, and
\* TimedOut (the Tmo error) when more than its timeout has elapsed; a poll
\* with a completion recorded for its (session, job) returns Completed
\* (Ready(Ok)), whatever the clock says.
C4_PollOutcome ==
    [][\A i \in Tasks :
         Poll(i) =>
           LET signalled == <<task[i].session, task[i].job_id>> \in table
               elapsed == now - task[i].started
           IN  /\ (~signalled /\ elapsed < task[i].timeout) => hist'[i].poll = "Pending"
               /\ (~signalled /\ elapsed > task[i].timeout) => hist'[i].poll = "TimedOut"
               /\ signalled => hist'[i].poll = "Completed"]_vars

\* one task has polled TimedOut and another Completed
C4_Witness ==
    \E i, k \in Tasks : hist[i].poll = "TimedOut" /\ hist[k].poll = "Completed"

\* C5.  Terminal results are final: once a poll of a task has returned
\* Completed or TimedOut, the task's last poll result stays that one for as
\* long as the task exists.
C5_TerminalIsFinal ==
    [][\A i \in Tasks :
         (hist[i].poll \in {"Completed", "TimedOut"} /\ task'[i].pc = "pending")
            => hist'[i].poll = hist[i].poll]_vars

\* C6.  When terminate() of a task that has not polled Completed or TimedOut
\* is about to return, and the transport accepted the abort, the result is
\* Ok and the registration the task installed is no longer installed.
C6_TerminateUninstalls ==
    \A i \in Tasks :
        (task[i].pc = "term_ret" /\ hist[i].poll = "Pending" /\ hist[i].term # "InvJobId")
           => /\ hist[i].term = "Ok"
              /\ Registration(task[i].session, InstallContext(i)) \notin handlers

\* C7.  When the drop of a task that has not polled Completed or TimedOut and
\* was not terminated has aborted the job and finishes, the registration the
\* task installed is no longer installed.
C7_DropUninstalls ==
    [][\A i \in Tasks :
         (task[i].pc = "drop_uninstall" /\ hist[i].poll = "Pending" /\ task'[i].pc = "dropped")
            => Registration(task[i].session, InstallContext(i)) \notin handlers']_vars

\* C8.  Two tasks outstanding on one session with different job ids are
\* independent: a task whose own job is still running has not polled
\* Completed.
C8_JobsIndependent ==
    \A i, k \in Tasks :
        (/\ i # k
         /\ task[i].pc = "pending" /\ task[k].pc = "pending"
         /\ task[i].session = task[k].session
         /\ task[i].job_id # task[k].job_id
         /\ xjob[i] = "running")
           => hist[i].poll # "Completed"

\* C9.  Terminating a task that is already terminal is a no-op: the drop that
\* follows terminate(), and the drop of a task that has polled Completed or
\* TimedOut, issue no viTerminate and no viUninstallHandler.
C9_TerminalTerminateIsNoOp ==
    \A i \in Tasks :
        /\ task[i].pc # "term_drop_uninstall"
        /\ ~(task[i].pc = "drop_uninstall" /\ hist[i].poll \in {"Completed", "TimedOut"})

Width(t) ==
    CASE t \in {"u8", "u16", "i16", "ViBoolean"} -> 1
      [] t \in {"u32", "i32"} -> 2
      [] t = "u64" -> 4

Signed(t) == t \in {"i16", "i32"}

\* the limbs of integer x at type t (x within the 32-bit range)
Bits(t, x) ==
    IF Width(t) = 1
    THEN <<(IF t = "u8" THEN x % 256 ELSE x % 65536)>>
    ELSE <<x % 65536, (x \div 65536) % 65536>>

\* `value as to`, and `to::from(value)`, for bits of type from: widening
\* extends by the sign of a signed source, narrowing truncates
Cast(from, to, bits) ==
    LET fill == IF Signed(from) /\ bits[Len(bits)] >= 32768 THEN 65535 ELSE 0
        wide == [k \in 1..4 |-> IF k <= Len(bits) THEN bits[k] ELSE fill]
        cut == [k \in 1..Width(to) |-> wide[k]]
    IN IF to = "u8" THEN <<cut[1] % 256>> ELSE cut

\* the number a one-limb or i32 value stands for
IntOf(t, bits) ==
    IF Width(t) = 1
    THEN IF Signed(t) /\ bits[1] >= 32768 THEN bits[1] - 65536 ELSE bits[1]
    ELSE (IF bits[2] >= 32768 THEN bits[2] - 65536 ELSE bits[2]) * 65536 + bits[1]

\* bindings::ViAttrState: ViUInt64 on a 64-bit build
ViAttrState == "u64"

(***************************************************************************)
(* attribute/*.rs: the constants, enums and attribute kinds.               *)
(***************************************************************************)
\* the VISA constants the attribute files name (values of the VISA standard)
VI ==
    [VI_ASRL_END_BREAK |-> 3, VI_ASRL_END_LAST_BIT |-> 1, VI_ASRL_END_NONE |-> 0,
     VI_ASRL_END_TERMCHAR |-> 2, VI_ASRL_FLOW_DTR_DSR |-> 4, VI_ASRL_FLOW_NONE |-> 0,
     VI_ASRL_FLOW_RTS_CTS |-> 2, VI_ASRL_FLOW_XON_XOFF |-> 1, VI_ASRL_PAR_EVEN |-> 2,
     VI_ASRL_PAR_MARK |-> 3, VI_ASRL_PAR_NONE |-> 0, VI_ASRL_PAR_ODD |-> 1, VI_ASRL_PAR_SPACE |-> 4,
     VI_ASRL_STOP_ONE |-> 10, VI_ASRL_STOP_ONE5 |-> 15, VI_ASRL_STOP_TWO |-> 20, VI_BIG_ENDIAN |-> 0,
     VI_BLCK_NPRIV |-> 5, VI_BLCK_PRIV |-> 4, VI_D64_NPRIV |-> 7, VI_D64_PRIV |-> 6, VI_DATA_NPRIV |-> 1,
     VI_DATA_PRIV |-> 0, VI_EXCLUSIVE_LOCK |-> 1, VI_FALSE |-> 0, VI_FDC_NORMAL |-> 1,
     VI_FDC_STREAM |-> 2, VI_FLUSH_ON_ACCESS |-> 1, VI_FLUSH_WHEN_FULL |-> 2,
     VI_GPIB_HS488_DISABLED |-> 0, VI_GPIB_HS488_NIMPL |-> -1, VI_GPIB_LISTENER |-> 2,
     VI_GPIB_TALKER |-> 1, VI_GPIB_UNADDRESSED |-> 0, VI_INTF_ASRL |-> 4, VI_INTF_GPIB |-> 1,
     VI_INTF_GPIB_VXI |-> 3, VI_INTF_PXI |-> 5, VI_INTF_TCPIP |-> 6, VI_INTF_USB |-> 7, VI_INTF_VXI |-> 2,
     VI_LITTLE_ENDIAN |-> 1, VI_LOAD_CONFIG |-> 4, VI_NO_LOCK |-> 0, VI_NO_SEC_ADDR |-> 65535,
     VI_PROG_NPRIV |-> 3, VI_PROG_PRIV |-> 2, VI_PXI_LBUS_STAR_TRIG_BUS_0 |-> 1000,
     VI_PXI_LBUS_STAR_TRIG_BUS_1 |-> 1001, VI_PXI_LBUS_STAR_TRIG_BUS_2 |-> 1002,
     VI_PXI_LBUS_STAR_TRIG_BUS_3 |-> 1003, VI_PXI_LBUS_STAR_TRIG_BUS_4 |-> 1004,
     VI_PXI_LBUS_STAR_TRIG_BUS_5 |-> 1005, VI_PXI_LBUS_STAR_TRIG_BUS_6 |-> 1006,
     VI_PXI_LBUS_STAR_TRIG_BUS_7 |-> 1007, VI_PXI_LBUS_STAR_TRIG_BUS_8 |-> 1008,
     VI_PXI_LBUS_STAR_TRIG_BUS_9 |-> 1009, VI_PXI_STAR_TRIG_CONTROLLER |-> 1413, VI_SHARED_LOCK |-> 2,
     VI_STATE_ASSERTED |-> 1, VI_STATE_UNASSERTED |-> 0, VI_STATE_UNKNOWN |-> -1, VI_TRUE |-> 1,
     VI_VXI_CLASS_EXTENDED |-> 1, VI_VXI_CLASS_MEMORY |-> 0, VI_VXI_CLASS_MESSAGE |-> 2,
     VI_VXI_CLASS_OTHER |-> 4, VI_VXI_CLASS_REGISTER |-> 3]

\* asrl.rs: the enums with explicit discriminants, variant by variant
AsrlEnums ==
    [AsrlParityType |->  \* lines 18-28
        [repr |-> "u32", variants |-> <<<<"None", "VI_ASRL_PAR_NONE">>, <<"Odd", "VI_ASRL_PAR_ODD">>, <<"Even", "VI_ASRL_PAR_EVEN">>, <<"Mark", "VI_ASRL_PAR_MARK">>, <<"Space", "VI_ASRL_PAR_SPACE">>>>],
     AsrlStopBitsType |->  \* lines 49-57
        [repr |-> "u32", variants |-> <<<<"One", "VI_ASRL_STOP_ONE">>, <<"One5", "VI_ASRL_STOP_ONE5">>, <<"Two", "VI_ASRL_STOP_TWO">>>>],
     AsrlFlowCntrlType |->  \* lines 79-97
        [repr |-> "u32", variants |-> <<<<"None", "VI_ASRL_FLOW_NONE">>, <<"XonXoff", "VI_ASRL_FLOW_XON_XOFF">>, <<"RtsCts", "VI_ASRL_FLOW_RTS_CTS">>, <<"DtrDsr", "VI_ASRL_FLOW_DTR_DSR">>>>],
     AsrlState |->  \* lines 124-136
        [repr |-> "u32", variants |-> <<<<"Asserted", "VI_STATE_ASSERTED">>, <<"Unasserted", "VI_STATE_UNASSERTED">>, <<"Unknown", "VI_STATE_UNKNOWN">>>>],
     AsrlEnd |->  \* lines 246-262
        [repr |-> "u32", variants |-> <<<<"None", "VI_ASRL_END_NONE">>, <<"LastBit", "VI_ASRL_END_LAST_BIT">>, <<"Termchar", "VI_ASRL_END_TERMCHAR">>, <<"Break", "VI_ASRL_END_BREAK">>>>]]

\* gpib.rs: the enums with explicit discriminants, variant by variant
GpibEnums ==
    [GpibAddrStateType |->  \* lines 57-65
        [repr |-> "i16", variants |-> <<<<"Unaddressed", "VI_GPIB_UNADDRESSED">>, <<"Talker", "VI_GPIB_TALKER">>, <<"Listener", "VI_GPIB_LISTENER">>>>]]

\* misc.rs: the enums with explicit discriminants, variant by variant
MiscEnums ==
    [FdcModeType |->  \* lines 149-156
        [repr |-> "u32", variants |-> <<<<"Normal", "VI_FDC_NORMAL">>, <<"Stream", "VI_FDC_STREAM">>>>],
     InterfaceType |->  \* lines 218-230
        [repr |-> "u32", variants |-> <<<<"Gpib", "VI_INTF_GPIB">>, <<"Vxi", "VI_INTF_VXI">>, <<"GpibVxi", "VI_INTF_GPIB_VXI">>, <<"Asrl", "VI_INTF_ASRL">>, <<"Pxi", "VI_INTF_PXI">>, <<"Tcpip", "VI_INTF_TCPIP">>, <<"Usb", "VI_INTF_USB">>>>],
     WrBufOperModeType |->  \* lines 282-292
        [repr |-> "u32", variants |-> <<<<"OnAccess", "VI_FLUSH_ON_ACCESS">>, <<"OnFull", "VI_FLUSH_WHEN_FULL">>>>],
     AccessPrivilege |->  \* lines 334-350
        [repr |-> "u32", variants |-> <<<<"DataPriv", "VI_DATA_PRIV">>, <<"DataNPriv", "VI_DATA_NPRIV">>, <<"ProgPriv", "VI_PROG_PRIV">>, <<"ProgNPriv", "VI_PROG_NPRIV">>, <<"BlockPriv", "VI_BLCK_PRIV">>, <<"BlockNPriv", "VI_BLCK_NPRIV">>, <<"D64Priv", "VI_D64_PRIV">>, <<"D64NPriv", "VI_D64_NPRIV">>>>],
     ByteOrder |->  \* lines 426-435
        [repr |-> "u32", variants |-> <<<<"BigEndian", "VI_BIG_ENDIAN">>, <<"LittleEndian", "VI_LITTLE_ENDIAN">>>>]]

\* pxi.rs: the enums with explicit discriminants, variant by variant
PxiEnums ==
    [PxiSlotLBus |->  \* lines 63-79
        [repr |-> "u32", variants |-> <<<<"StarTrigBus0", "VI_PXI_LBUS_STAR_TRIG_BUS_0">>, <<"StarTrigBus1", "VI_PXI_LBUS_STAR_TRIG_BUS_1">>, <<"StarTrigBus2", "VI_PXI_LBUS_STAR_TRIG_BUS_2">>, <<"StarTrigBus3", "VI_PXI_LBUS_STAR_TRIG_BUS_3">>, <<"StarTrigBus4", "VI_PXI_LBUS_STAR_TRIG_BUS_4">>, <<"StarTrigBus5", "VI_PXI_LBUS_STAR_TRIG_BUS_5">>, <<"StarTrigBus6", "VI_PXI_LBUS_STAR_TRIG_BUS_6">>, <<"StarTrigBus7", "VI_PXI_LBUS_STAR_TRIG_BUS_7">>, <<"StarTrigBus8", "VI_PXI_LBUS_STAR_TRIG_BUS_8">>, <<"StarTrigBus9", "VI_PXI_LBUS_STAR_TRIG_BUS_9">>, <<"StarTrigController", "VI_PXI_STAR_TRIG_CONTROLLER">>>>]]

\* vxi.rs: the enums with explicit discriminants, variant by variant
VxiEnums ==
    [VxiDevClassType |->  \* lines 29-39
        [repr |-> "u16", variants |-> <<<<"Memory", "VI_VXI_CLASS_MEMORY">>, <<"Extended", "VI_VXI_CLASS_EXTENDED">>, <<"Message", "VI_VXI_CLASS_MESSAGE">>, <<"Register", "VI_VXI_CLASS_REGISTER">>, <<"Other", "VI_VXI_CLASS_OTHER">>>>]]

\* traits.rs: the enums with explicit discriminants, variant by variant
TraitsEnums ==
    [AccessMode |->  \* lines 59-77
        [repr |-> "u32", variants |-> <<<<"ExclusiveLock", "VI_EXCLUSIVE_LOCK">>, <<"SharedLock", "VI_SHARED_LOCK">>, <<"NoLock", "VI_NO_LOCK">>, <<"LoadConfig", "VI_LOAD_CONFIG">>>>]]

\* attribute.rs: the enums with explicit discriminants, variant by variant
RootEnums ==
    [State |->  \* lines 235-242
        [repr |-> "i32", variants |-> <<<<"Asserted", "VI_STATE_ASSERTED">>, <<"Unasserted", "VI_STATE_UNASSERTED">>, <<"Unknown", "VI_STATE_UNKNOWN">>>>]]

EnumDecl == AsrlEnums @@ GpibEnums @@ MiscEnums @@ PxiEnums @@ VxiEnums @@ TraitsEnums @@ RootEnums

\* asrl.rs: every impl_attr! of the file: raw type, the form of its `from`
\* block, the form of its `into` block ("none": no AsViWritable)
AsrlAttrs ==
    [AsrlBaud |->  \* lines 5-10
        [raw |-> "u32", from |-> "any", cmp |-> "-", ty |-> "-", lo |-> 0, hi |-> 0, into |-> "cast_u32",
         arms |-> <<>>],
     AsrlDataBits |->  \* lines 12-16
        [raw |-> "u16", from |-> "any", cmp |-> "-", ty |-> "-", lo |-> 0, hi |-> 0, into |-> "from_u16",
         arms |-> <<>>],
     AsrlParity |->  \* lines 30-47
        [raw |-> "u16", from |-> "enum", cmp |-> "u32", ty |-> "AsrlParityType", lo |-> 0, hi |-> 0, into |-> "cast_enum",
         arms |-> <<<<"AsrlParityType", "None", "None">>, <<"AsrlParityType", "Odd", "Odd">>,
                  <<"AsrlParityType", "Even", "Even">>, <<"AsrlParityType", "Mark", "Mark">>,
                  <<"AsrlParityType", "Space", "Space">>>>],
     AsrlStopBits |->  \* lines 59-77
        [raw |-> "u16", from |-> "enum", cmp |-> "u32", ty |-> "AsrlStopBitsType", lo |-> 0, hi |-> 0, into |-> "cast_enum",
         arms |-> <<<<"AsrlStopBitsType", "One", "One">>, <<"AsrlStopBitsType", "One5", "One5">>,
                  <<"AsrlStopBitsType", "Two", "Two">>>>],
     AsrlFlowCntrl |->  \* lines 99-117
        [raw |-> "u16", from |-> "enum", cmp |-> "u32", ty |-> "AsrlFlowCntrlType", lo |-> 0, hi |-> 0, into |-> "cast_enum",
         arms |-> <<<<"AsrlFlowCntrlType", "None", "None">>, <<"AsrlFlowCntrlType", "XonXoff", "XonXoff">>,
                  <<"AsrlFlowCntrlType", "RtsCts", "RtsCts">>, <<"AsrlFlowCntrlType", "DtrDsr", "DtrDsr">>>>],
     AsrlAvailNum |->  \* lines 119-122
        [raw |-> "u32", from |-> "any", cmp |-> "-", ty |-> "-", lo |-> 0, hi |-> 0, into |-> "none",
         arms |-> <<>>],
     AsrlCtsState |->  \* lines 137-150
        [raw |-> "i16", from |-> "enum", cmp |-> "i16", ty |-> "AsrlState", lo |-> 0, hi |-> 0, into |-> "none",
         arms |-> <<<<"AsrlState", "Asserted", "Asserted">>, <<"AsrlState", "Unasserted", "Unasserted">>,
                  <<"AsrlState", "Unknown", "Unknown">>>>],
     AsrlDcdState |->  \* lines 151-171
        [raw |-> "i16", from |-> "enum", cmp |-> "i16", ty |-> "AsrlState", lo |-> 0, hi |-> 0, into |-> "cast_enum",
         arms |-> <<<<"AsrlState", "Asserted", "Asserted">>, <<"AsrlState", "Unasserted", "Unasserted">>,
                  <<"AsrlState", "Unknown", "Unknown">>>>],
     AsrlDsrState |->  \* lines 172-185
        [raw |-> "i16", from |-> "enum", cmp |-> "i16", ty |-> "AsrlState", lo |-> 0, hi |-> 0, into |-> "none",
         arms |-> <<<<"AsrlState", "Asserted", "Asserted">>, <<"AsrlState", "Unasserted", "Unasserted">>,
                  <<"AsrlState", "Unknown", "Unknown">>>>],
     AsrlDtrState |->  \* lines 186-204
        [raw |-> "i16", from |-> "enum", cmp |-> "i16", ty |-> "AsrlState", lo |-> 0, hi |-> 0, into |-> "cast_enum",
         arms |-> <<<<"AsrlState", "Asserted", "Asserted">>, <<"AsrlState", "Unasserted", "Unasserted">>,
                  <<"AsrlState", "Unknown", "Unknown">>>>],
     AsrlRiState |->  \* lines 205-224
        [raw |-> "i16", from |-> "enum", cmp |-> "i16", ty |-> "AsrlState", lo |-> 0, hi |-> 0, into |-> "cast_enum",
         arms |-> <<<<"AsrlState", "Asserted", "Asserted">>, <<"AsrlState", "Unasserted", "Unasserted">>,
                  <<"AsrlState", "Unknown", "Unknown">>>>],
     AsrlRtsState |->  \* lines 226-244
        [raw |-> "i16", from |-> "enum", cmp |-> "i16", ty |-> "AsrlState", lo |-> 0, hi |-> 0, into |-> "cast_enum",
         arms |-> <<<<"AsrlState", "Asserted", "Asserted">>, <<"AsrlState", "Unasserted", "Unasserted">>,
                  <<"AsrlState", "Unknown", "Unknown">>>>],
     AsrlEndIn |->  \* lines 263-284
        [raw |-> "u16", from |-> "enum", cmp |-> "u32", ty |-> "AsrlEnd", lo |-> 0, hi |-> 0, into |-> "cast_enum",
         arms |-> <<<<"AsrlEnd", "None", "None">>, <<"AsrlEnd", "LastBit", "LastBit">>,
                  <<"AsrlEnd", "Termchar", "Termchar">>>>],
     AsrlEndOut |->  \* lines 285-306
        [raw |-> "u16", from |-> "enum", cmp |-> "u32", ty |-> "AsrlEnd", lo |-> 0, hi |-> 0, into |-> "cast_enum",
         arms |-> <<<<"AsrlEnd", "None", "None">>, <<"AsrlEnd", "LastBit", "LastBit">>,
                  <<"AsrlEnd", "Termchar", "Termchar">>>>],
     AsrlReplaceChar |->  \* lines 308-324
        [raw |-> "u8", from |-> "char", cmp |-> "-", ty |-> "-", lo |-> 0, hi |-> 0, into |-> "char",
         arms |-> <<>>],
     AsrlXonChar |->  \* lines 326-343
        [raw |-> "u8", from |-> "char", cmp |-> "-", ty |-> "-", lo |-> 0, hi |-> 0, into |-> "char",
         arms |-> <<>>],
     AsrlXoffChar |->  \* lines 345-362
        [raw |-> "u8", from |-> "char", cmp |-> "-", ty |-> "-", lo |-> 0, hi |-> 0, into |-> "char",
         arms |-> <<>>]]

\* gpib.rs: every impl_attr! of the file: raw type, the form of its `from`
\* block, the form of its `into` block ("none": no AsViWritable)
GpibAttrs ==
    [GpibRecvCicState |->  \* lines 5-8
        [raw |-> "ViBoolean", from |-> "bool", cmp |-> "-", ty |-> "-", lo |-> 0, hi |-> 0, into |-> "none",
         arms |-> <<>>],
     GpibReaddrEn |->  \* lines 10-13
        [raw |-> "ViBoolean", from |-> "bool", cmp |-> "-", ty |-> "-", lo |-> 0, hi |-> 0, into |-> "bool",
         arms |-> <<>>],
     GpibPrimaryAddr |->  \* lines 15-20
        [raw |-> "u16", from |-> "any", cmp |-> "-", ty |-> "-", lo |-> 0, hi |-> 0, into |-> "from_u16",
         arms |-> <<>>],
     GpibSecondaryAddr |->  \* lines 22-41
        [raw |-> "u16", from |-> "secaddr", cmp |-> "-", ty |-> "-", lo |-> 0, hi |-> 30, into |-> "option",
         arms |-> <<>>],
     GpibAtnState |->  \* lines 43-55
        [raw |-> "i16", from |-> "enum", cmp |-> "i16", ty |-> "State", lo |-> 0, hi |-> 0, into |-> "none",
         arms |-> <<<<"State", "Asserted", "Asserted">>, <<"State", "Unasserted", "Unasserted">>,
                  <<"State", "Unknown", "Unknown">>>>],
     GpibAddrState |->  \* lines 67-79
        [raw |-> "i16", from |-> "enum", cmp |-> "i16", ty |-> "GpibAddrStateType", lo |-> 0, hi |-> 0, into |-> "none",
         arms |-> <<<<"GpibAddrStateType", "Unaddressed", "Unaddressed">>,
                  <<"GpibAddrStateType", "Talker", "Talker">>,
                  <<"GpibAddrStateType", "Listener", "Listener">>>>],
     GpibCicState |->  \* lines 81-84
        [raw |-> "ViBoolean", from |-> "bool", cmp |-> "-", ty |-> "-", lo |-> 0, hi |-> 0, into |-> "none",
         arms |-> <<>>],
     GpibNdacState |->  \* lines 86-98
        [raw |-> "i16", from |-> "enum", cmp |-> "i16", ty |-> "State", lo |-> 0, hi |-> 0, into |-> "none",
         arms |-> <<<<"State", "Asserted", "Asserted">>, <<"State", "Unasserted", "Unasserted">>,
                  <<"State", "Unknown", "Unknown">>>>],
     GpibSrqState |->  \* lines 100-112
        [raw |-> "i16", from |-> "enum", cmp |-> "i16", ty |-> "State", lo |-> 0, hi |-> 0, into |-> "none",
         arms |-> <<<<"State", "Asserted", "Asserted">>, <<"State", "Unasserted", "Unasserted">>,
                  <<"State", "Unknown", "Unknown">>>>],
     GpibSysCntrlState |->  \* lines 114-119
        [raw |-> "ViBoolean", from |-> "bool", cmp |-> "-", ty |-> "-", lo |-> 0, hi |-> 0, into |-> "bool",
         arms |-> <<>>],
     GpibHs488CblLen |->  \* lines 131-156
        [raw |-> "i16", from |-> "cbllen", cmp |-> "-", ty |-> "-", lo |-> 1, hi |-> 15, into |-> "cbllen",
         arms |-> <<>>],
     GpibRenState |->  \* lines 158-171
        [raw |-> "i32", from |-> "enum", cmp |-> "i32", ty |-> "State", lo |-> 0, hi |-> 0, into |-> "none",
         arms |-> <<<<"State", "Asserted", "Asserted">>, <<"State", "Unasserted", "Unasserted">>,
                  <<"State", "Unknown", "Unknown">>>>],
     GpibUnaddrEn |->  \* lines 173-176
        [raw |-> "ViBoolean", from |-> "bool", cmp |-> "-", ty |-> "-", lo |-> 0, hi |-> 0, into |-> "bool",
         arms |-> <<>>]]

\* misc.rs: every impl_attr! of the file: raw type, the form of its `from`
\* block, the form of its `into` block ("none": no AsViWritable)
MiscAttrs ==
    [MaxQueueLength |->  \* lines 129-133
        [raw |-> "u32", from |-> "any", cmp |-> "-", ty |-> "-", lo |-> 0, hi |-> 0, into |-> "cast_u32",
         arms |-> <<>>],
     FdcChnl |->  \* lines 135-147
        [raw |-> "u16", from |-> "range", cmp |-> "-", ty |-> "-", lo |-> 0, hi |-> 7, into |-> "from_u16",
         arms |-> <<>>],
     FdcMode |->  \* lines 157-170
        [raw |-> "u32", from |-> "enum", cmp |-> "u32", ty |-> "FdcModeType", lo |-> 0, hi |-> 0, into |-> "cast_enum",
         arms |-> <<<<"bindings", "VI_FDC_NORMAL", "Normal">>, <<"bindings", "VI_FDC_STREAM", "Stream">>>>],
     FdcGenSignalEn |->  \* lines 172-177
        [raw |-> "ViBoolean", from |-> "bool", cmp |-> "-", ty |-> "-", lo |-> 0, hi |-> 0, into |-> "bool",
         arms |-> <<>>],
     FdcUsePair |->  \* lines 179-182
        [raw |-> "ViBoolean", from |-> "bool", cmp |-> "-", ty |-> "-", lo |-> 0, hi |-> 0, into |-> "bool",
         arms |-> <<>>],
     SendEndEn |->  \* lines 184-191
        [raw |-> "ViBoolean", from |-> "bool", cmp |-> "-", ty |-> "-", lo |-> 0, hi |-> 0, into |-> "bool",
         arms |-> <<>>],
     TermChar |->  \* lines 193-199
        [raw |-> "u8", from |-> "any", cmp |-> "-", ty |-> "-", lo |-> 0, hi |-> 0, into |-> "from_u8",
         arms |-> <<>>],
     TmoValue |->  \* lines 201-216
        [raw |-> "u32", from |-> "millis", cmp |-> "-", ty |-> "-", lo |-> 0, hi |-> 0, into |-> "millis",
         arms |-> <<>>],
     IntfType |->  \* lines 231-247
        [raw |-> "u16", from |-> "enum", cmp |-> "u32", ty |-> "InterfaceType", lo |-> 0, hi |-> 0, into |-> "none",
         arms |-> <<<<"bindings", "VI_INTF_GPIB", "Gpib">>, <<"bindings", "VI_INTF_VXI", "Vxi">>,
                  <<"bindings", "VI_INTF_GPIB_VXI", "GpibVxi">>, <<"bindings", "VI_INTF_ASRL", "Asrl">>,
                  <<"bindings", "VI_INTF_PXI", "Pxi">>, <<"bindings", "VI_INTF_TCPIP", "Tcpip">>,
                  <<"bindings", "VI_INTF_USB", "Usb">>>>],
     IntfNum |->  \* lines 249-252
        [raw |-> "u16", from |-> "any", cmp |-> "-", ty |-> "-", lo |-> 0, hi |-> 0, into |-> "none",
         arms |-> <<>>],
     IoProt |->  \* lines 254-261
        [raw |-> "u16", from |-> "any", cmp |-> "-", ty |-> "-", lo |-> 0, hi |-> 0, into |-> "from_u16",
         arms |-> <<>>],
     DmaAllowEn |->  \* lines 263-268
        [raw |-> "ViBoolean", from |-> "bool", cmp |-> "-", ty |-> "-", lo |-> 0, hi |-> 0, into |-> "bool",
         arms |-> <<>>],
     RdBufOperMode |->  \* lines 270-275
        [raw |-> "u16", from |-> "any", cmp |-> "-", ty |-> "-", lo |-> 0, hi |-> 0, into |-> "from_u16",
         arms |-> <<>>],
     RdBufSize |->  \* lines 277-280
        [raw |-> "u32", from |-> "any", cmp |-> "-", ty |-> "-", lo |-> 0, hi |-> 0, into |-> "none",
         arms |-> <<>>],
     WrBufOperMode |->  \* lines 294-310
        [raw |-> "u16", from |-> "enum", cmp |-> "u32", ty |-> "WrBufOperModeType", lo |-> 0, hi |-> 0, into |-> "cast_enum",
         arms |-> <<<<"WrBufOperModeType", "OnAccess", "OnAccess">>,
                  <<"WrBufOperModeType", "OnFull", "OnFull">>>>],
     WrBufSize |->  \* lines 312-315
        [raw |-> "u32", from |-> "any", cmp |-> "-", ty |-> "-", lo |-> 0, hi |-> 0, into |-> "none",
         arms |-> <<>>],
     SuppressEndEn |->  \* lines 317-326
        [raw |-> "ViBoolean", from |-> "bool", cmp |-> "-", ty |-> "-", lo |-> 0, hi |-> 0, into |-> "bool",
         arms |-> <<>>],
     TermCharEn |->  \* lines 328-332
        [raw |-> "ViBoolean", from |-> "bool", cmp |-> "-", ty |-> "-", lo |-> 0, hi |-> 0, into |-> "bool",
         arms |-> <<>>],
     DestAccessPriv |->  \* lines 351-375
        [raw |-> "u16", from |-> "enum", cmp |-> "u32", ty |-> "AccessPrivilege", lo |-> 0, hi |-> 0, into |-> "cast_enum",
         arms |-> <<<<"AccessPrivilege", "DataPriv", "DataPriv">>,
                  <<"AccessPrivilege", "DataNPriv", "DataNPriv">>,
                  <<"AccessPrivilege", "ProgPriv", "ProgPriv">>,
                  <<"AccessPrivilege", "ProgNPriv", "ProgNPriv">>,
                  <<"AccessPrivilege", "BlockPriv", "BlockPriv">>,
                  <<"AccessPrivilege", "BlockNPriv", "BlockNPriv">>,
                  <<"AccessPrivilege", "D64Priv", "D64Priv">>, <<"AccessPrivilege", "D64NPriv", "D64NPriv">>>>],
     SrcAccessPriv |->  \* lines 376-400
        [raw |-> "u16", from |-> "enum", cmp |-> "u32", ty |-> "AccessPrivilege", lo |-> 0, hi |-> 0, into |-> "cast_enum",
         arms |-> <<<<"AccessPrivilege", "DataPriv", "DataPriv">>,
                  <<"AccessPrivilege", "DataNPriv", "DataNPriv">>,
                  <<"AccessPrivilege", "ProgPriv", "ProgPriv">>,
                  <<"AccessPrivilege", "ProgNPriv", "ProgNPriv">>,
                  <<"AccessPrivilege", "BlockPriv", "BlockPriv">>,
                  <<"AccessPrivilege", "BlockNPriv", "BlockNPriv">>,
                  <<"AccessPrivilege", "D64Priv", "D64Priv">>, <<"AccessPrivilege", "D64NPriv", "D64NPriv">>>>],
     WinAccessPriv |->  \* lines 401-424
        [raw |-> "u16", from |-> "enum", cmp |-> "u32", ty |-> "AccessPrivilege", lo |-> 0, hi |-> 0, into |-> "cast_enum",
         arms |-> <<<<"AccessPrivilege", "DataPriv", "DataPriv">>,
                  <<"AccessPrivilege", "DataNPriv", "DataNPriv">>,
                  <<"AccessPrivilege", "ProgPriv", "ProgPriv">>,
                  <<"AccessPrivilege", "ProgNPriv", "ProgNPriv">>,
                  <<"AccessPrivilege", "BlockPriv", "BlockPriv">>,
                  <<"AccessPrivilege", "BlockNPriv", "BlockNPriv">>,
                  <<"AccessPrivilege", "D64Priv", "D64Priv">>, <<"AccessPrivilege", "D64NPriv", "D64NPriv">>>>],
     DestByteOrder |->  \* lines 437-453
        [raw |-> "u16", from |-> "enum", cmp |-> "u32", ty |-> "ByteOrder", lo |-> 0, hi |-> 0, into |-> "cast_enum",
         arms |-> <<<<"ByteOrder", "BigEndian", "BigEndian">>, <<"ByteOrder", "LittleEndian", "LittleEndian">>>>],
     SrcByteOrder |->  \* lines 454-470
        [raw |-> "u16", from |-> "enum", cmp |-> "u32", ty |-> "ByteOrder", lo |-> 0, hi |-> 0, into |-> "cast_enum",
         arms |-> <<<<"ByteOrder", "BigEndian", "BigEndian">>, <<"ByteOrder", "LittleEndian", "LittleEndian">>>>],
     WinByteOrder |->  \* lines 471-488
        [raw |-> "u16", from |-> "enum", cmp |-> "u32", ty |-> "ByteOrder", lo |-> 0, hi |-> 0, into |-> "cast_enum",
         arms |-> <<<<"ByteOrder", "BigEndian", "BigEndian">>, <<"ByteOrder", "LittleEndian", "LittleEndian">>>>],
     SrcIncrement |->  \* lines 490-506
        [raw |-> "i32", from |-> "range", cmp |-> "-", ty |-> "-", lo |-> 0, hi |-> 1, into |-> "cast_i32",
         arms |-> <<>>],
     DestIncrement |->  \* lines 508-524
        [raw |-> "i32", from |-> "range", cmp |-> "-", ty |-> "-", lo |-> 0, hi |-> 1, into |-> "cast_i32",
         arms |-> <<>>],
     CmdrLa |->  \* lines 526-536
        [raw |-> "i16", from |-> "range", cmp |-> "-", ty |-> "-", lo |-> 0, hi |-> 255, into |-> "none",
         arms |-> <<>>],
     MainframeLa |->  \* lines 538-548
        [raw |-> "i16", from |-> "range", cmp |-> "-", ty |-> "-", lo |-> 0, hi |-> 255, into |-> "none",
         arms |-> <<>>],
     ManfName |->  \* lines 550-554
        [raw |-> "str", from |-> "string", cmp |-> "-", ty |-> "-", lo |-> 0, hi |-> 0, into |-> "none",
         arms |-> <<>>],
     ModelName |->  \* lines 556-559
        [raw |-> "str", from |-> "string", cmp |-> "-", ty |-> "-", lo |-> 0, hi |-> 0, into |-> "none",
         arms |-> <<>>],
     DevStatusByte |->  \* lines 561-565
        [raw |-> "u8", from |-> "any", cmp |-> "-", ty |-> "-", lo |-> 0, hi |-> 0, into |-> "from_u8",
         arms |-> <<>>],
     FileAppendEn |->  \* lines 567-570
        [raw |-> "ViBoolean", from |-> "bool", cmp |-> "-", ty |-> "-", lo |-> 0, hi |-> 0, into |-> "bool",
         arms |-> <<>>],
     MemBase |->  \* lines 572-580
        [raw |-> "u64", from |-> "any", cmp |-> "-", ty |-> "-", lo |-> 0, hi |-> 0, into |-> "none",
         arms |-> <<>>],
     MemSize |->  \* lines 582-589
        [raw |-> "u64", from |-> "any", cmp |-> "-", ty |-> "-", lo |-> 0, hi |-> 0, into |-> "none",
         arms |-> <<>>]]

\* pxi.rs: every impl_attr! of the file: raw type, the form of its `from`
\* block, the form of its `into` block ("none": no AsViWritable)
PxiAttrs ==
    [PxiDevNum |->  \* lines 4-15
        [raw |-> "i16", from |-> "range", cmp |-> "-", ty |-> "-", lo |-> 0, hi |-> 511, into |-> "none",
         arms |-> <<>>],
     PxiFuncNum |->  \* lines 17-29
        [raw |-> "u16", from |-> "range", cmp |-> "-", ty |-> "-", lo |-> 0, hi |-> 7, into |-> "none",
         arms |-> <<>>],
     PxiBusNum |->  \* lines 31-41
        [raw |-> "u16", from |-> "range", cmp |-> "-", ty |-> "-", lo |-> 0, hi |-> 255, into |-> "none",
         arms |-> <<>>],
     PxiChassis |->  \* lines 43-52
        [raw |-> "i16", from |-> "range", cmp |-> "-", ty |-> "-", lo |-> 0, hi |-> 255, into |-> "none",
         arms |-> <<>>],
     PxiSlotpath |->  \* lines 54-61
        [raw |-> "str", from |-> "string", cmp |-> "-", ty |-> "-", lo |-> 0, hi |-> 0, into |-> "none",
         arms |-> <<>>],
     PxiSlotLbusLeft |->  \* lines 80-101
        [raw |-> "i16", from |-> "enum", cmp |-> "i16", ty |-> "PxiSlotLBus", lo |-> 0, hi |-> 0, into |-> "none",
         arms |-> <<<<"PxiSlotLBus", "StarTrigBus0", "StarTrigBus0">>,
                  <<"PxiSlotLBus", "StarTrigBus1", "StarTrigBus1">>,
                  <<"PxiSlotLBus", "StarTrigBus2", "StarTrigBus2">>,
                  <<"PxiSlotLBus", "StarTrigBus3", "StarTrigBus3">>,
                  <<"PxiSlotLBus", "StarTrigBus4", "StarTrigBus4">>,
                  <<"PxiSlotLBus", "StarTrigBus5", "StarTrigBus5">>,
                  <<"PxiSlotLBus", "StarTrigBus6", "StarTrigBus6">>,
                  <<"PxiSlotLBus", "StarTrigBus7", "StarTrigBus7">>,
                  <<"PxiSlotLBus", "StarTrigBus8", "StarTrigBus8">>,
                  <<"PxiSlotLBus", "StarTrigBus9", "StarTrigBus9">>,
                  <<"PxiSlotLBus", "StarTrigController", "StarTrigController">>>>],
     PxiSlotLbusRight |->  \* lines 102-123
        [raw |-> "i16", from |-> "enum", cmp |-> "i16", ty |-> "PxiSlotLBus", lo |-> 0, hi |-> 0, into |-> "none",
         arms |-> <<<<"PxiSlotLBus", "StarTrigBus0", "StarTrigBus0">>,
                  <<"PxiSlotLBus", "StarTrigBus1", "StarTrigBus1">>,
                  <<"PxiSlotLBus", "StarTrigBus2", "StarTrigBus2">>,
                  <<"PxiSlotLBus", "StarTrigBus3", "StarTrigBus3">>,
                  <<"PxiSlotLBus", "StarTrigBus4", "StarTrigBus4">>,
                  <<"PxiSlotLBus", "StarTrigBus5", "StarTrigBus5">>,
                  <<"PxiSlotLBus", "StarTrigBus6", "StarTrigBus6">>,
                  <<"PxiSlotLBus", "StarTrigBus7", "StarTrigBus7">>,
                  <<"PxiSlotLBus", "StarTrigBus8", "StarTrigBus8">>,
                  <<"PxiSlotLBus", "StarTrigBus9", "StarTrigBus9">>,
                  <<"PxiSlotLBus", "StarTrigController", "StarTrigController">>>>],
     PxiMemTypeBar0 |->  \* lines 195-198
        [raw |-> "u16", from |-> "any", cmp |-> "-", ty |-> "-", lo |-> 0, hi |-> 0, into |-> "from_u16",
         arms |-> <<>>],
     PxiMemTypeBar1 |->  \* lines 200-203
        [raw |-> "u16", from |-> "any", cmp |-> "-", ty |-> "-", lo |-> 0, hi |-> 0, into |-> "from_u16",
         arms |-> <<>>],
     PxiMemTypeBar2 |->  \* lines 205-208
        [raw |-> "u16", from |-> "any", cmp |-> "-", ty |-> "-", lo |-> 0, hi |-> 0, into |-> "from_u16",
         arms |-> <<>>],
     PxiMemTypeBar3 |->  \* lines 210-213
        [raw |-> "u16", from |-> "any", cmp |-> "-", ty |-> "-", lo |-> 0, hi |-> 0, into |-> "from_u16",
         arms |-> <<>>],
     PxiMemTypeBar4 |->  \* lines 215-218
        [raw |-> "u16", from |-> "any", cmp |-> "-", ty |-> "-", lo |-> 0, hi |-> 0, into |-> "from_u16",
         arms |-> <<>>],
     PxiMemTypeBar5 |->  \* lines 220-223
        [raw |-> "u16", from |-> "any", cmp |-> "-", ty |-> "-", lo |-> 0, hi |-> 0, into |-> "from_u16",
         arms |-> <<>>],
     PxiMemBaseBar0 |->  \* lines 225-229
        [raw |-> "u32", from |-> "any", cmp |-> "-", ty |-> "-", lo |-> 0, hi |-> 0, into |-> "none",
         arms |-> <<>>],
     PxiMemBaseBar1 |->  \* lines 231-235
        [raw |-> "u32", from |-> "any", cmp |-> "-", ty |-> "-", lo |-> 0, hi |-> 0, into |-> "none",
         arms |-> <<>>],
     PxiMemBaseBar2 |->  \* lines 237-241
        [raw |-> "u32", from |-> "any", cmp |-> "-", ty |-> "-", lo |-> 0, hi |-> 0, into |-> "none",
         arms |-> <<>>],
     PxiMemBaseBar3 |->  \* lines 243-247
        [raw |-> "u32", from |-> "any", cmp |-> "-", ty |-> "-", lo |-> 0, hi |-> 0, into |-> "none",
         arms |-> <<>>],
     PxiMemBaseBar4 |->  \* lines 249-253
        [raw |-> "u32", from |-> "any", cmp |-> "-", ty |-> "-", lo |-> 0, hi |-> 0, into |-> "none",
         arms |-> <<>>],
     PxiMemBaseBar5 |->  \* lines 255-259
        [raw |-> "u32", from |-> "any", cmp |-> "-", ty |-> "-", lo |-> 0, hi |-> 0, into |-> "none",
         arms |-> <<>>],
     PxiMemSizeBar0 |->  \* lines 261-265
        [raw |-> "u32", from |-> "any", cmp |-> "-", ty |-> "-", lo |-> 0, hi |-> 0, into |-> "none",
         arms |-> <<>>],
     PxiMemSizeBar1 |->  \* lines 267-271
        [raw |-> "u32", from |-> "any", cmp |-> "-", ty |-> "-", lo |-> 0, hi |-> 0, into |-> "none",
         arms |-> <<>>],
     PxiMemSizeBar2 |->  \* lines 273-277
        [raw |-> "u32", from |-> "any", cmp |-> "-", ty |-> "-", lo |-> 0, hi |-> 0, into |-> "none",
         arms |-> <<>>],
     PxiMemSizeBar3 |->  \* lines 279-283
        [raw |-> "u32", from |-> "any", cmp |-> "-", ty |-> "-", lo |-> 0, hi |-> 0, into |-> "none",
         arms |-> <<>>],
     PxiMemSizeBar4 |->  \* lines 285-289
        [raw |-> "u32", from |-> "any", cmp |-> "-", ty |-> "-", lo |-> 0, hi |-> 0, into |-> "none",
         arms |-> <<>>],
     PxiMemSizeBar5 |->  \* lines 291-295
        [raw |-> "u32", from |-> "any", cmp |-> "-", ty |-> "-", lo |-> 0, hi |-> 0, into |-> "none",
         arms |-> <<>>]]

\* rsrc.rs: every impl_attr! of the file: raw type, the form of its `from`
\* block, the form of its `into` block ("none": no AsViWritable)
RsrcAttrs ==
    [RsrcClass |->  \* lines 5-8
        [raw |-> "str", from |-> "string", cmp |-> "-", ty |-> "-", lo |-> 0, hi |-> 0, into |-> "none",
         arms |-> <<>>],
     RsrcName |->  \* lines 10-14
        [raw |-> "str", from |-> "string", cmp |-> "-", ty |-> "-", lo |-> 0, hi |-> 0, into |-> "none",
         arms |-> <<>>],
     RsrcImplVersion |->  \* lines 16-23
        [raw |-> "u32", from |-> "any", cmp |-> "-", ty |-> "-", lo |-> 0, hi |-> 0, into |-> "cast_u32",
         arms |-> <<>>],
     RsrcLockState |->  \* lines 25-44
        [raw |-> "u32", from |-> "enum", cmp |-> "u32", ty |-> "AccessMode", lo |-> 0, hi |-> 0, into |-> "cast_enum",
         arms |-> <<<<"AccessMode", "NoLock", "NoLock">>, <<"AccessMode", "ExclusiveLock", "ExclusiveLock">>,
                  <<"AccessMode", "SharedLock", "SharedLock">>, <<"AccessMode", "LoadConfig", "LoadConfig">>>>],
     RsrcSpecVersion |->  \* lines 46-51
        [raw |-> "u32", from |-> "any", cmp |-> "-", ty |-> "-", lo |-> 0, hi |-> 0, into |-> "none",
         arms |-> <<>>],
     RsrcManfName |->  \* lines 53-58
        [raw |-> "str", from |-> "string", cmp |-> "-", ty |-> "-", lo |-> 0, hi |-> 0, into |-> "none",
         arms |-> <<>>],
     RsrcManfId |->  \* lines 60-64
        [raw |-> "u16", from |-> "any", cmp |-> "-", ty |-> "-", lo |-> 0, hi |-> 0, into |-> "none",
         arms |-> <<>>]]

\* tcpip.rs: every impl_attr! of the file: raw type, the form of its `from`
\* block, the form of its `into` block ("none": no AsViWritable)
TcpipAttrs ==
    [TcpipHislipOverlapEn |->  \* lines 4-7
        [raw |-> "ViBoolean", from |-> "bool", cmp |-> "-", ty |-> "-", lo |-> 0, hi |-> 0, into |-> "bool",
         arms |-> <<>>],
     TcpipHislipVersion |->  \* lines 9-12
        [raw |-> "u32", from |-> "any", cmp |-> "-", ty |-> "-", lo |-> 0, hi |-> 0, into |-> "none",
         arms |-> <<>>],
     TcpipHislipMaxMessageKb |->  \* lines 14-17
        [raw |-> "u32", from |-> "any", cmp |-> "-", ty |-> "-", lo |-> 0, hi |-> 0, into |-> "cast_u32",
         arms |-> <<>>],
     TcpipIsHislip |->  \* lines 19-22
        [raw |-> "ViBoolean", from |-> "bool", cmp |-> "-", ty |-> "-", lo |-> 0, hi |-> 0, into |-> "none",
         arms |-> <<>>],
     TcpipAddr |->  \* lines 24-27
        [raw |-> "str", from |-> "string", cmp |-> "-", ty |-> "-", lo |-> 0, hi |-> 0, into |-> "none",
         arms |-> <<>>],
     TcpipHostname |->  \* lines 29-32
        [raw |-> "str", from |-> "string", cmp |-> "-", ty |-> "-", lo |-> 0, hi |-> 0, into |-> "none",
         arms |-> <<>>],
     TcpipPort |->  \* lines 34-37
        [raw |-> "u16", from |-> "any", cmp |-> "-", ty |-> "-", lo |-> 0, hi |-> 0, into |-> "none",
         arms |-> <<>>],
     TcpipDeviceName |->  \* lines 39-42
        [raw |-> "str", from |-> "string", cmp |-> "-", ty |-> "-", lo |-> 0, hi |-> 0, into |-> "none",
         arms |-> <<>>],
     TcpipNodelay |->  \* lines 44-49
        [raw |-> "ViBoolean", from |-> "bool", cmp |-> "-", ty |-> "-", lo |-> 0, hi |-> 0, into |-> "bool",
         arms |-> <<>>],
     TcpipKeepalive |->  \* lines 51-56
        [raw |-> "ViBoolean", from |-> "bool", cmp |-> "-", ty |-> "-", lo |-> 0, hi |-> 0, into |-> "bool",
         arms |-> <<>>]]

\* usb.rs: every impl_attr! of the file: raw type, the form of its `from`
\* block, the form of its `into` block ("none": no AsViWritable)
UsbAttrs ==
    [UsbSerialNum |->  \* lines 4-7
        [raw |-> "str", from |-> "string", cmp |-> "-", ty |-> "-", lo |-> 0, hi |-> 0, into |-> "none",
         arms |-> <<>>],
     UsbIntfcNum |->  \* lines 9-12
        [raw |-> "i16", from |-> "any", cmp |-> "-", ty |-> "-", lo |-> 0, hi |-> 0, into |-> "none",
         arms |-> <<>>],
     UsbProtocol |->  \* lines 14-17
        [raw |-> "i16", from |-> "any", cmp |-> "-", ty |-> "-", lo |-> 0, hi |-> 0, into |-> "none",
         arms |-> <<>>],
     UsbMaxIntrSize |->  \* lines 19-25
        [raw |-> "u16", from |-> "any", cmp |-> "-", ty |-> "-", lo |-> 0, hi |-> 0, into |-> "from_u16",
         arms |-> <<>>],
     UsbRecvIntrSize |->  \* lines 27-30
        [raw |-> "u16", from |-> "any", cmp |-> "-", ty |-> "-", lo |-> 0, hi |-> 0, into |-> "none",
         arms |-> <<>>]]

\* vxi.rs: every impl_attr! of the file: raw type, the form of its `from`
\* block, the form of its `into` block ("none": no AsViWritable)
VxiAttrs ==
    [VxiLa |->  \* lines 5-16
        [raw |-> "i16", from |-> "range", cmp |-> "-", ty |-> "-", lo |-> 0, hi |-> 511, into |-> "none",
         arms |-> <<>>],
     VxiTrigSupport |->  \* lines 18-22
        [raw |-> "u32", from |-> "any", cmp |-> "-", ty |-> "-", lo |-> 0, hi |-> 0, into |-> "none",
         arms |-> <<>>],
     VxiVmeIntrStatus |->  \* lines 24-27
        [raw |-> "u16", from |-> "any", cmp |-> "-", ty |-> "-", lo |-> 0, hi |-> 0, into |-> "none",
         arms |-> <<>>],
     VxiDevClass |->  \* lines 41-61
        [raw |-> "u16", from |-> "enum", cmp |-> "u16", ty |-> "VxiDevClassType", lo |-> 0, hi |-> 0, into |-> "none",
         arms |-> <<<<"VxiDevClassType", "Memory", "Memory">>, <<"VxiDevClassType", "Extended", "Extended">>,
                  <<"VxiDevClassType", "Message", "Message">>, <<"VxiDevClassType", "Register", "Register">>,
                  <<"VxiDevClassType", "Other", "Other">>>>],
     VxiTrigStatus |->  \* lines 63-67
        [raw |-> "u32", from |-> "any", cmp |-> "-", ty |-> "-", lo |-> 0, hi |-> 0, into |-> "none",
         arms |-> <<>>],
     VxiVmeSysfailState |->  \* lines 69-82
        [raw |-> "i16", from |-> "enum", cmp |-> "i16", ty |-> "State", lo |-> 0, hi |-> 0, into |-> "none",
         arms |-> <<<<"State", "Asserted", "Asserted">>, <<"State", "Unasserted", "Unasserted">>,
                  <<"State", "Unknown", "Unknown">>>>],
     Is4882Compliant |->  \* lines 84-87
        [raw |-> "ViBoolean", from |-> "bool", cmp |-> "-", ty |-> "-", lo |-> 0, hi |-> 0, into |-> "bool",
         arms |-> <<>>]]

Attr == AsrlAttrs @@ GpibAttrs @@ MiscAttrs @@ PxiAttrs @@ RsrcAttrs @@ TcpipAttrs @@ UsbAttrs @@ VxiAttrs

AttributeKinds == DOMAIN Attr
Writable(k) == Attr[k].into # "none"
WritableKinds == { k \in AttributeKinds : Writable(k) }

Variants(ty) == { EnumDecl[ty].variants[n][1] : n \in DOMAIN EnumDecl[ty].variants }

\* the discriminant of ty::variant, at the enum's repr type
Discriminant(ty, variant) ==
    LET d == EnumDecl[ty]
        n == CHOOSE n \in DOMAIN d.variants : d.variants[n][1] = variant
    IN Bits(d.repr, VI[d.variants[n][2]])

\* what a match arm compares the value with, at type cmp: `Ty::Variant as cmp`
\* or the constant `bindings::NAME` (a u32)
ArmGuard(arm, cmp) ==
    IF arm[1] = "bindings"
    THEN Cast("u32", cmp, Bits("u32", VI[arm[2]]))
    ELSE Cast(EnumDecl[arm[1]].repr, cmp, Discriminant(arm[1], arm[2]))

\* Duration::from_millis(u64::from(value)) for a u32: <<secs, nanos>>.
\* 65536 = 65 * 1000 + 536 keeps every intermediate below 2^31.
from_millis(bits) ==
    LET low == 536 * bits[2] + bits[1]
    IN <<65 * bits[2] + (low \div 1000), (low % 1000) * 1000000>>

\* Duration::as_millis() as ViAttrState
as_millis(secs, nanos) ==
    LET p0 == (secs % 65536) * 1000 + (nanos \div 1000000)
        p1 == (secs \div 65536) * 1000 + (p0 \div 65536)
    IN <<p0 % 65536, p1 % 65536, p1 \div 65536, 0>>

\* CStr::from_ptr(..).to_string_lossy(): the bytes before the first NUL,
\* each byte that is no valid UTF-8 replaced by U+FFFD
to_string_lossy(bytes) ==
    LET end == CHOOSE n \in 1..Len(bytes) : bytes[n] = 0 /\ \A m \in 1..(n - 1) : bytes[m] # 0
    IN [n \in 1..(end - 1) |-> IF bytes[n] < 128 THEN bytes[n] ELSE 65533]

\* the first arm of the match that accepts the value, if any
MatchingArms(a, value) ==
    { n \in DOMAIN a.arms : ArmGuard(a.arms[n], a.cmp) = value }

\* AsViReadable::from_vi for kind k: the `from` block applied to a raw value
from_vi(k, raw) ==
    LET a == Attr[k] IN
    CASE a.from = "any" -> Some(<<a.raw>> \o raw)
      [] a.from = "bool" ->
            IF raw = Cast("u32", "ViBoolean", Bits("u32", VI.VI_TRUE)) THEN Some(<<"bool", 1>>)
            ELSE IF raw = Cast("u32", "ViBoolean", Bits("u32", VI.VI_FALSE)) THEN Some(<<"bool", 0>>)
            ELSE None
      [] a.from = "string" -> Some(<<"String">> \o to_string_lossy(raw))
      [] a.from = "enum" ->
            LET value == Cast(a.raw, a.cmp, raw)
                hits == MatchingArms(a, value)
            IN IF hits = {} THEN None
               ELSE LET n == CHOOSE n \in hits : \A m \in hits : n <= m
                    IN Some(<<a.ty, a.arms[n][3]>>)
      [] a.from = "range" ->
            IF a.lo <= IntOf(a.raw, raw) /\ IntOf(a.raw, raw) <= a.hi
            THEN Some(<<a.raw>> \o raw)
            ELSE None
      [] a.from = "secaddr" ->
            IF a.lo <= raw[1] /\ raw[1] <= a.hi THEN Some(<<"Some", raw[1]>>)
            ELSE IF raw = Cast("u32", "u16", Bits("u32", VI.VI_NO_SEC_ADDR)) THEN Some(<<"None">>)
            ELSE None
      [] a.from = "cbllen" ->
            LET value == IntOf("i16", Cast(a.raw, "i16", raw)) IN
            IF value = IntOf("i16", Bits("i16", VI.VI_GPIB_HS488_NIMPL)) THEN Some(<<"NotImplemented">>)
            ELSE IF value = IntOf("i16", Bits("i16", VI.VI_GPIB_HS488_DISABLED)) THEN Some(<<"Disabled">>)
            ELSE IF a.lo <= value /\ value <= a.hi THEN Some(<<"Meters", value % 256>>)
            ELSE None
      [] a.from = "char" -> Some(<<"char", Cast(a.raw, "u8", raw)[1]>>)
      [] a.from = "millis" -> Some(<<"Duration">> \o from_millis(raw))

\* the secondary address encoded with 0 in place of the sentinel
option_into_zero(value) ==
    IF value = <<"None">> THEN Bits("u16", 0) ELSE Bits("u16", value[2])

\* GpibSecondaryAddr, `into`: value.unwrap_or(VI_NO_SEC_ADDR as u16)
option_into(value) ==
    IF value = <<"None">>
    THEN Cast("u32", "u16", Bits("u32", VI.VI_NO_SEC_ADDR))
    ELSE Bits("u16", value[2])

\* GpibHs488CblLen, `into`: the i16 the match yields
cbllen_into(value) ==
    CASE value = <<"NotImplemented">> -> Bits("i16", VI.VI_GPIB_HS488_NIMPL)
      [] value = <<"Disabled">> -> Bits("i16", VI.VI_GPIB_HS488_DISABLED)
      [] value[1] = "Meters" /\ value[2] = 0 -> Bits("i16", 1)
      [] value[1] = "Meters" /\ value[2] > 15 -> Bits("i16", 15)
      [] value[1] = "Meters" /\ value[2] \in 1..15 -> Bits("i16", value[2])

\* AsViWritable::as_vi for a writable kind k: the `into` block applied to
\* the attribute's value
as_vi(k, value) ==
    LET a == Attr[k] IN
    CASE a.into \in {"cast_u32", "cast_i32", "from_u16", "from_u8"} ->
            Cast(a.raw, ViAttrState, Tail(value))
      [] a.into = "bool" ->
            IF value[2] = 1 THEN Cast("u32", ViAttrState, Bits("u32", VI.VI_TRUE))
            ELSE Cast("u32", ViAttrState, Bits("u32", VI.VI_FALSE))
      [] a.into = "cast_enum" ->
            Cast(EnumDecl[value[1]].repr, ViAttrState, Discriminant(value[1], value[2]))
      [] a.into = "char" ->
            IF value[2] < 128 THEN Cast("u8", ViAttrState, Bits("u8", value[2]))
            ELSE Cast("u8", ViAttrState, Bits("u8", 63))
      [] a.into = "option" -> Cast("u16", ViAttrState, option_into(value))
      [] a.into = "cbllen" -> Cast("i16", ViAttrState, cbllen_into(value))
      [] a.into = "millis" -> as_millis(value[2], value[3])

\* viSetAttribute then viGetAttribute: the transport keeps an attribute at
\* the width of its raw type
Narrow(k, state) == Cast(ViAttrState, Attr[k].raw, state)

(***************************************************************************)
(* The values the study draws from.                                        *)
(***************************************************************************)
U8Values == {0, 1, 10, 15, 16, 63, 65, 127, 128, 233, 255}
U16Values == {0, 1, 2, 3, 4, 5, 7, 8, 9, 15, 16, 20, 30, 31, 99, 255, 256, 511, 512,
              1000, 1009, 1413, 32768, 65535}
U32Values == {<<0, 0>>, <<1, 0>>, <<2, 0>>, <<3, 0>>, <<4, 0>>, <<99, 0>>, <<1500, 0>>,
              <<0, 1>>, <<65535, 65535>>}
U64Values == {<<0, 0, 0, 0>>, <<0, 0, 1, 0>>}
\* [c_char; 256] buffers, written here up to their NUL
CStrValues == {<<0>>, <<65, 0>>, <<65, 255, 0>>}
CharValues == {0, 63, 65, 127, 128, 233, 255, 256, 8364}
\* Durations <<secs, nanos>>: whole and broken milliseconds, and the
\* values around u32::MAX milliseconds (4294967.295 s)
DurationValues == {<<0, 0>>, <<0, 500000>>, <<1, 500000000>>, <<2, 0>>, <<4294967, 295000000>>,
                   <<4294967, 296000000>>, <<4294968, 0>>}

\* every bit pattern of the study at raw type t
RawValues(t) ==
    CASE t = "u8" -> { <<x>> : x \in U8Values }
      [] t \in {"u16", "i16", "ViBoolean"} -> { <<x>> : x \in U16Values }
      [] t \in {"u32", "i32"} -> U32Values
      [] t = "u64" -> U64Values
      [] t = "str" -> CStrValues

\* values of the attribute's Value type
Values(k) ==
    LET a == Attr[k] IN
    CASE a.from \in {"any", "range"} -> { <<a.raw>> \o r : r \in RawValues(a.raw) }
      [] a.from = "bool" -> {<<"bool", 0>>, <<"bool", 1>>}
      [] a.from = "string" -> { <<"String">> \o to_string_lossy(r) : r \in CStrValues }
      [] a.from = "enum" -> { <<a.ty, v>> : v \in Variants(a.ty) }
      [] a.from = "secaddr" -> {<<"None">>} \cup { <<"Some", x>> : x \in U16Values }
      [] a.from = "cbllen" ->
            {<<"NotImplemented">>, <<"Disabled">>} \cup { <<"Meters", x>> : x \in U8Values }
      [] a.from = "char" -> { <<"char", c>> : c \in CharValues }
      [] a.from = "millis" -> { <<"Duration">> \o d : d \in DurationValues }

\* asrl.rs, gpib.rs: ranges the attribute's documentation declares valid
AsrlDocumentedRange == [AsrlDataBits |-> <<5, 8>>]
GpibDocumentedRange == [GpibPrimaryAddr |-> <<0, 30>>]
DocumentedRange == AsrlDocumentedRange @@ GpibDocumentedRange

\* asrl.rs, line 260: Break is "Only valid for AsrlEndOut"
InvalidVariants(k) == IF k = "AsrlEndIn" THEN {"Break"} ELSE {}

\* the defined domain of kind k, as a set of raw values: the declared
\* discriminants of its enum, the two booleans, its range
InDomain(k, raw) ==
    LET a == Attr[k] IN
    CASE k \in DOMAIN DocumentedRange ->
            DocumentedRange[k][1] <= IntOf(a.raw, raw) /\ IntOf(a.raw, raw) <= DocumentedRange[k][2]
      [] k \notin DOMAIN DocumentedRange /\ a.from \in {"any", "string", "char", "millis"} -> TRUE
      [] a.from = "bool" -> raw \in {Bits("u16", VI.VI_TRUE), Bits("u16", VI.VI_FALSE)}
      [] a.from = "enum" ->
            \E v \in Variants(a.ty) \ InvalidVariants(k) :
                raw = Cast(EnumDecl[a.ty].repr, a.raw, Discriminant(a.ty, v))
      [] a.from = "range" -> IntOf(a.raw, raw) \in a.lo..a.hi
      [] a.from = "secaddr" -> raw[1] \in a.lo..a.hi \/ raw = Bits("u16", VI.VI_NO_SEC_ADDR)
      [] a.from = "cbllen" ->
            IntOf("i16", raw) \in {VI.VI_GPIB_HS488_NIMPL, VI.VI_GPIB_HS488_DISABLED} \cup (a.lo..a.hi)

\* the valid domain of kind k, as a set of values
ValidValue(k, value) ==
    LET a == Attr[k] IN
    CASE a.from \in {"any", "range"} -> InDomain(k, Tail(value))
      [] a.from \in {"bool", "string"} -> TRUE
      [] a.from = "enum" -> value[2] \notin InvalidVariants(k)
      [] a.from = "secaddr" -> value = <<"None">> \/ value[2] \in a.lo..a.hi
      [] a.from = "cbllen" -> value[1] # "Meters" \/ value[2] \in a.lo..a.hi
      [] a.from = "char" -> value[2] <= 255
      [] a.from = "millis" -> value[3] % 1000000 = 0 /\ as_millis(value[2], value[3])[3] = 0

ValidValues(k) == { v \in Values(k) : ValidValue(k, v) }

(***************************************************************************)
(* event.rs: the C entry point of a handler.                               *)
(***************************************************************************)
\* the arms of TryFrom<u32> for Event, in source order:
\* <<C, V>> is the arm  bindings::C => Ok(Self::V)
EventArms ==
    <<
      <<"VI_EVENT_IO_COMPLETION", "IoCompletion">>, <<"VI_EVENT_TRIG", "Trig">>,
      <<"VI_EVENT_SERVICE_REQ", "ServiceReq">>, <<"VI_EVENT_CLEAR", "Clear">>,
      <<"VI_EVENT_EXCEPTION", "Exception">>, <<"VI_EVENT_GPIB_CIC", "GpibCic">>,
      <<"VI_EVENT_GPIB_TALK", "GpibTalk">>, <<"VI_EVENT_GPIB_LISTEN", "GpibListen">>,
      <<"VI_EVENT_VXI_VME_SYSFAIL", "VxiVmeSysfail">>, <<"VI_EVENT_VXI_VME_SYSRESET", "VxiVmeSysreset">>,
      <<"VI_EVENT_VXI_SIGP", "VxiSigp">>, <<"VI_EVENT_VXI_VME_INTR", "VxiVmeIntr">>,
      <<"VI_EVENT_PXI_INTR", "PxiIntr">>, <<"VI_EVENT_TCPIP_CONNECT", "TcpipConnect">>,
      <<"VI_EVENT_USB_INTR", "UsbIntr">>, <<"VI_ALL_ENABLED_EVENTS", "All">>
    >>

\* event types of the transport that the enum Event does not name, and a
\* value that is no event type at all.  An event type is named by the
\* bindings constant that holds it.
OtherEventTypes ==
    {"VI_EVENT_ASRL_BREAK", "VI_EVENT_ASRL_CTS", "VI_EVENT_ASRL_DSR", "VI_EVENT_ASRL_DCD",
     "VI_EVENT_ASRL_RI", "VI_EVENT_ASRL_CHAR", "VI_EVENT_ASRL_TERMCHAR", "VI_EVENT_VXI_STROBE",
     "0"}

EventTypes == { EventArms[n][1] : n \in DOMAIN EventArms } \cup OtherEventTypes

\* a try_from that takes every value it does not know for IoCompletion
EventTryFrom_lenient(value) ==
    LET hits == { n \in DOMAIN EventArms : EventArms[n][1] = value }
    IN  IF hits = {}
        THEN [tag |-> "Ok", value |-> "IoCompletion"]
        ELSE [tag |-> "Ok", value |-> EventArms[CHOOSE n \in hits : \A m \in hits : n <= m][2]]

\* Event::try_from(value)
EventTryFrom(value) ==
    LET hits == { n \in DOMAIN EventArms : EventArms[n][1] = value }
    IN  IF hits = {}
        THEN Err(ErrorDefault)
        ELSE [tag |-> "Ok", value |-> EventArms[CHOOSE n \in hits : \A m \in hits : n <= m][2]]

\* what Self::handle may return: Ok(()) or an error of any kind
HandleResults == {Ok} \cup { Err([status |-> v, description |-> None]) : v \in ErrorTypeVariants }

(***************************************************************************)
(* The calls of the study: one call, its inputs drawn at the start.        *)
(***************************************************************************)
\* statuses the transport may return from viGetAttribute / viSetAttribute / viOpen
GetStatuses == {"VI_SUCCESS", "VI_ERROR_NSUP_ATTR"}
SetStatuses == {"VI_SUCCESS", "VI_ERROR_NSUP_ATTR_STATE", "VI_ERROR_ATTR_READONLY"}
OpenStatuses == {"VI_SUCCESS", "VI_ERROR_RSRC_NFOUND"}

\* resource names as bytes: with and without an interior NUL
ResourceNames == {<<65>>, <<65, 66>>, <<0>>, <<65, 0, 66>>}

OkValue(v) == [tag |-> "Ok", value |-> v]

\* VI_ATTR_TMO_VALUE: "the actual timeout value used by the driver may be
\* higher than the requested one": by how many milliseconds
TmoRoundUps == {0, 1}

\* the timeout in effect for a requested u32 of milliseconds
EffectiveTmo(raw, up) ==
    IF up = 0 \/ raw = <<65535, 65535>> THEN raw
    ELSE IF raw[1] = 65535 THEN <<0, raw[2] + 1>>
    ELSE <<raw[1] + 1, raw[2]>>

\* statuses the transport may return from viWrite and from viRead
WriteStatuses == {"VI_SUCCESS", "VI_ERROR_TMO"}
ReadStatuses == {"VI_SUCCESS", "VI_SUCCESS_MAX_CNT", "VI_ERROR_TMO"}

\* write_all(buf): the status viWrite returns for each string of buf, were
\* it written; buf has up to MaxStrings strings
WriteAllInputs == UNION { [1..n -> WriteStatuses] : n \in 0..MaxStrings }

\* read_to_string: what each viRead reports, until one reports no bytes
\* (<<status, 0>>) or fails; a read that filled the buffer is followed by another
ReadToStringInputs ==
    { <<<<st, 0>>>> : st \in ReadStatuses }
    \cup { <<<<"VI_SUCCESS_MAX_CNT", 1>>, <<st, 0>>>> : st \in ReadStatuses }

\* what becomes of the bytes read: no UTF-8, no parse as T, or a value of T
ParseResults == {"InvalidData", "ParseError", "Parsed"}

Calls ==
    UNION { { <<"from_vi", k, r>> : r \in RawValues(Attr[k].raw) } : k \in AttributeKinds }
    \cup UNION { { <<"as_vi", k, v>> : v \in Values(k) } : k \in WritableKinds }
    \cup UNION { { <<"get_attribute", k, st, r>> : st \in GetStatuses, r \in RawValues(Attr[k].raw) }
                 : k \in AttributeKinds }
    \cup UNION { { <<"set_attribute", k, v, st>> : v \in Values(k), st \in SetStatuses }
                 : k \in AttributeKinds }
    \cup { <<"c_handler", e, h>> : e \in EventTypes, h \in HandleResults }
    \cup { <<"Session::new", n, d, st>> : n \in ResourceNames, d \in DurationValues, st \in OpenStatuses }
    \cup { <<"set TmoValue", d, up>> : d \in Values("TmoValue"), up \in TmoRoundUps }
    \cup { <<"write_all", sts>> : sts \in WriteAllInputs }
    \cup { <<"query", st, reads, parsed>> : st \in WriteStatuses, reads \in ReadToStringInputs,
                                             parsed \in ParseResults }

CallInit ==
    /\ call \in Calls
    /\ ret = None
    /\ issued = <<>>

\* T::from_vi(raw)
FromViCall ==
    /\ call[1] = "from_vi"
    /\ ret = None
    /\ ret' = Some(from_vi(call[2], call[3]))
    /\ UNCHANGED <<call, issued>>
    /\ UNCHANGED <<tableVars, asyncVars, errVars, rmVars, search>>

\* attribute.as_vi(), and the raw value the transport then holds for the
\* attribute: the next call reads it back
AsViCall ==
    /\ call[1] = "as_vi"
    /\ LET state == as_vi(call[2], call[3]) IN
       /\ issued' = <<<<"as_vi", call[2], call[3], state>>>>
       /\ call' = <<"from_vi", call[2], Narrow(call[2], state)>>
    /\ ret' = ret
    /\ UNCHANGED <<tableVars, asyncVars, errVars, rmVars, search>>

\* get_attribute_raw, lines 436-441: the value returned is zeroed memory of
\* type T::Value over which the transport wrote the raw value.  Where Value
\* is the raw integer type that is the integer; where it is not, reading
\* the bytes as a Value is undefined: it may show the bytes, or any Value.
Transmuted(k, raw) ==
    IF Attr[k].from \in {"any", "range"}
    THEN {<<Attr[k].raw>> \o raw}
    ELSE {<<"bytes">> \o raw} \cup Values(k)

\* Session::get_attribute::<T>(): viGetAttribute returns status call[3] and
\* on success has written the raw value call[4]
GetAttribute ==
    /\ call[1] = "get_attribute"
    /\ ret = None
    /\ issued' = <<<<"viGetAttribute", call[2]>>>>
    /\ LET res == wrap_binding(Some(1), call[3], "VI_SUCCESS") IN
       IF res.tag = "Ok"
       THEN \E v \in Transmuted(call[2], call[4]) : ret' = Some(OkValue(v))
       ELSE ret' = Some(res)
    /\ call' = call
    /\ UNCHANGED <<tableVars, asyncVars, errVars, rmVars, search>>

\* Session::set_attribute::<T>(attribute): T: AsViWritable, so the call
\* exists for writable kinds only; viSetAttribute returns status call[4]
SetAttribute ==
    /\ call[1] = "set_attribute"
    /\ ret = None
    /\ Writable(call[2])
    /\ issued' = <<<<"viSetAttribute", call[2], as_vi(call[2], call[3])>>>>
    /\ ret' = Some(wrap_binding(Some(1), call[4], "VI_SUCCESS"))
    /\ call' = call
    /\ UNCHANGED <<tableVars, asyncVars, errVars, rmVars, search>>

\* session.set_attribute(TmoValue(d)) that succeeds: the transport keeps the
\* u32 of the encoding, possibly rounded up, for the read that follows
SetTmoValue ==
    /\ call[1] = "set TmoValue"
    /\ LET state == as_vi("TmoValue", call[2]) IN
       /\ issued' = <<<<"viSetAttribute", "TmoValue", state>>>>
       /\ call' = <<"get TmoValue", call[2], EffectiveTmo(Narrow("TmoValue", state), call[3])>>
    /\ ret' = ret
    /\ UNCHANGED <<tableVars, asyncVars, errVars, rmVars, search>>

\* session.get_attribute::<TmoValue>() that succeeds, after the write
GetTmoValue ==
    /\ call[1] = "get TmoValue"
    /\ ret = None
    /\ issued' = Append(issued, <<"viGetAttribute", "TmoValue">>)
    /\ \E v \in Transmuted("TmoValue", call[3]) : ret' = Some(OkValue(v))
    /\ call' = call
    /\ UNCHANGED <<tableVars, asyncVars, errVars, rmVars, search>>

\* HandlerWithData::c_handler(session, event_type, event, user_data), with
\* Self::handle returning call[3]
CHandler ==
    /\ call[1] = "c_handler"
    /\ ret = None
    /\ LET event_type == EventTryFrom(call[2]) IN
       IF event_type.tag # "Ok"
       THEN /\ ret' = Some("VI_ERROR_INV_EVENT")
            /\ issued' = issued
       ELSE /\ issued' = <<<<"&*user_data">>, <<"handle", event_type.value>>>>
            /\ ret' = Some(IF call[3].tag = "Ok" THEN "VI_SUCCESS"
                           ELSE ErrorTypeAsI32(call[3].error.status))
    /\ call' = call
    /\ UNCHANGED <<tableVars, asyncVars, errVars, rmVars, search>>

\* CString::new(name): Err(NulError) when the bytes hold a NUL
CStringNew(name) ==
    IF \E n \in DOMAIN name : name[n] = 0 THEN Err(<<"NulError">>) ELSE OkValue(name \o <<0>>)

\* impl From<NulError> for Error
ErrorFromNulError ==
    [status |-> "InvParameter", description |-> Some(<<"msg", "Input contained a null byte">>)]

\* Error::from_msg(description)
ErrorFromMsg(description) ==
    [status |-> ErrorDefault.status, description |-> Some(<<"msg", description>>)]

\* a conversion to u32 that keeps the low 32 bits
u32_try_from_wrapping(millis) == OkValue(<<millis[1], millis[2]>>)

\* u32::try_from(millis) for the u128 of as_millis()
u32_try_from(millis) ==
    IF millis[3] = 0 /\ millis[4] = 0
    THEN OkValue(<<millis[1], millis[2]>>)
    ELSE Err(<<"TryFromIntError">>)

\* impl From<std::io::Error> for Error
ErrorFromIoError(e) ==
    [status |-> "SystemError", description |-> Some(<<"io", e>>)]

\* a write_string that reports success whatever viWrite returned
write_string_unchecked(st) == Ok

\* write_string(buf), with viWrite returning st: io::Write::write wraps the
\* status, the error passes through io::Error, the byte count is dropped
write_string(st) ==
    LET res == wrap_binding(Some(1), st, "VI_SUCCESS") IN
    IF res.tag = "Ok" THEN Ok ELSE Err(ErrorFromIoError(<<"Other", res.error>>))

\* Session::write_all(buf): one turn of the loop, or the return after it
WriteAll ==
    /\ call[1] = "write_all"
    /\ ret = None
    /\ LET n == Len(issued) + 1 IN
       IF n > Len(call[2])
       THEN /\ ret' = Some(Ok)
            /\ issued' = issued
       ELSE /\ issued' = Append(issued, <<"viWrite", n>>)
            /\ ret' = IF write_string(call[2][n]).tag = "Ok" THEN ret
                      ELSE Some(write_string(call[2][n]))
    /\ call' = call
    /\ UNCHANGED <<tableVars, asyncVars, errVars, rmVars, search>>

\* Session::query(cmd), line 150: write_string(cmd)?
QueryWrite ==
    /\ call[1] = "query"
    /\ ret = None
    /\ issued = <<>>
    /\ issued' = <<<<"viWrite", 1>>>>
    /\ ret' = IF write_string(call[2]).tag = "Ok" THEN ret ELSE Some(write_string(call[2]))
    /\ call' = call
    /\ UNCHANGED <<tableVars, asyncVars, errVars, rmVars, search>>

\* Session::query(cmd), lines 151-154: read_string()? turn by turn, then
\* trim().parse() and the mapping of its error
QueryRead ==
    /\ call[1] = "query"
    /\ ret = None
    /\ issued # <<>>
    /\ LET n == Len(issued)
           st == call[3][n][1]
           res == wrap_binding(Some(1), st, "VI_SUCCESS")
       IN
       /\ issued' = Append(issued, <<"viRead", n>>)
       /\ ret' = IF res.tag = "Err"
                 THEN Some(Err(ErrorFromIoError(<<"Other", res.error>>)))
                 ELSE IF call[3][n][2] # 0 THEN ret
                 ELSE CASE call[4] = "InvalidData" -> Some(Err(ErrorFromIoError(<<"InvalidData">>)))
                        [] call[4] = "ParseError" -> Some(Err(ErrorFromMsg("cmd: ParseError")))
                        [] call[4] = "Parsed" -> Some(OkValue(<<"T">>))
    /\ call' = call
    /\ UNCHANGED <<tableVars, asyncVars, errVars, rmVars, search>>

\* Session::new(rm, name, options), with viOpen returning status call[4]
SessionNew ==
    /\ call[1] = "Session::new"
    /\ ret = None
    /\ LET name == CStringNew(call[2])
           open_timeout == u32_try_from(as_millis(call[3][1], call[3][2]))
       IN
       IF name.tag # "Ok"
       THEN /\ ret' = Some(Err(ErrorFromNulError))
            /\ issued' = issued
       ELSE IF open_timeout.tag # "Ok"
       THEN /\ ret' = Some(Err(ErrorFromMsg("Timeout too large")))
            /\ issued' = issued
       ELSE /\ issued' = <<<<"viOpen", name.value, open_timeout.value>>>>
            /\ LET res == wrap_binding(None, call[4], "VI_SUCCESS") IN
               ret' = Some(IF res.tag = "Ok" THEN OkValue(<<"Session">>) ELSE res)
    /\ call' = call
    /\ UNCHANGED <<tableVars, asyncVars, errVars, rmVars, search>>

CallNext ==
    \/ FromViCall
    \/ AsViCall
    \/ GetAttribute
    \/ SetAttribute
    \/ CHandler
    \/ SessionNew
    \/ SetTmoValue
    \/ GetTmoValue
    \/ WriteAll
    \/ QueryWrite
    \/ QueryRead

CallSpecInit == TableInit /\ AsyncInit /\ ErrIdle /\ CallInit /\ RmIdle /\ SearchIdle
CallSpec == CallSpecInit /\ [][CallNext]_vars

\* event.rs, lines 13-30: the variants of enum Event and the constants that
\* are their discriminants
EventDecl ==
    <<
      <<"IoCompletion", "VI_EVENT_IO_COMPLETION">>, <<"Trig", "VI_EVENT_TRIG">>,
      <<"ServiceReq", "VI_EVENT_SERVICE_REQ">>, <<"Clear", "VI_EVENT_CLEAR">>,
      <<"Exception", "VI_EVENT_EXCEPTION">>, <<"GpibCic", "VI_EVENT_GPIB_CIC">>,
      <<"GpibTalk", "VI_EVENT_GPIB_TALK">>, <<"GpibListen", "VI_EVENT_GPIB_LISTEN">>,
      <<"VxiVmeSysfail", "VI_EVENT_VXI_VME_SYSFAIL">>, <<"VxiVmeSysreset", "VI_EVENT_VXI_VME_SYSRESET">>,
      <<"VxiSigp", "VI_EVENT_VXI_SIGP">>, <<"VxiVmeIntr", "VI_EVENT_VXI_VME_INTR">>,
      <<"PxiIntr", "VI_EVENT_PXI_INTR">>, <<"TcpipConnect", "VI_EVENT_TCPIP_CONNECT">>,
      <<"UsbIntr", "VI_EVENT_USB_INTR">>, <<"All", "VI_ALL_ENABLED_EVENTS">>
    >>

\* the attribute kinds the VISA standard declares read only (RO), among
\* those of rsrc.rs
ContractReadOnly ==
    {"RsrcClass", "RsrcName", "RsrcImplVersion", "RsrcLockState", "RsrcSpecVersion",
     "RsrcManfName", "RsrcManfId"}

(***************************************************************************)
(* resource_manager.rs: the singleton default resource manager.            *)
(***************************************************************************)
Callers == 1..NumCallers

\* statuses the transport may return from viOpenDefaultRM
OpenDefaultRMStatuses == {"VI_SUCCESS", "VI_ERROR_SYSTEM_ERROR"}

\* rm.thr[t]: where thread t is inside new(), the id it holds, the calls it
\* has begun; rm.returned: the session ids new() has returned so far
RmInit ==
    /\ singleton = None
    /\ rm = [thr |-> [t \in Callers |-> [pc |-> "out", id |-> 0, calls |-> 0]], returned |-> {}]
    /\ opened = 0

\* a thread calls ResourceManager::new()
NewCall(t) ==
    /\ rm.thr[t].pc = "out"
    /\ rm.thr[t].calls < MaxNewCalls
    /\ rm' = [rm EXCEPT !.thr[t].pc = "get", !.thr[t].calls = @ + 1]
    /\ UNCHANGED <<singleton, opened>>
    /\ UNCHANGED <<tableVars, asyncVars, errVars, callVars, search>>

\* lines 176-178: get_singleton_rm_id() locks, reads and unlocks; Some(id)
\* is returned at once
GetSingleton(t) ==
    /\ rm.thr[t].pc = "get"
    /\ IF singleton # None
       THEN rm' = [rm EXCEPT !.thr[t].pc = "out", !.thr[t].id = singleton[1],
                             !.returned = @ \cup {singleton[1]}]
       ELSE rm' = [rm EXCEPT !.thr[t].pc = "open"]
    /\ UNCHANGED <<singleton, opened>>
    /\ UNCHANGED <<tableVars, asyncVars, errVars, callVars, search>>

\* lines 180-181: viOpenDefaultRM returns status st and, on success, a new
\* session to the default resource manager
OpenDefaultRM(t, st) ==
    /\ rm.thr[t].pc = "open"
    /\ LET res == wrap_binding(None, st, "VI_SUCCESS") IN
       IF res.tag = "Ok"
       THEN /\ opened' = opened + 1
            /\ rm' = [rm EXCEPT !.thr[t].pc = "set", !.thr[t].id = opened + 1]
       ELSE /\ opened' = opened
            /\ rm' = [rm EXCEPT !.thr[t].pc = "out"]
    /\ UNCHANGED singleton
    /\ UNCHANGED <<tableVars, asyncVars, errVars, callVars, search>>

\* lines 183-184: set_singleton_rm_id(id) locks, writes and unlocks; then
\* Ok(Self(id)) is returned
SetSingleton(t) ==
    /\ rm.thr[t].pc = "set"
    /\ singleton' = Some(rm.thr[t].id)
    /\ rm' = [rm EXCEPT !.thr[t].pc = "out", !.returned = @ \cup {rm.thr[t].id}]
    /\ UNCHANGED opened
    /\ UNCHANGED <<tableVars, asyncVars, errVars, callVars, search>>

RmNext ==
    \/ \E t \in Callers : NewCall(t)
    \/ \E t \in Callers : GetSingleton(t)
    \/ \E t \in Callers, st \in OpenDefaultRMStatuses : OpenDefaultRM(t, st)
    \/ \E t \in Callers : SetSingleton(t)

RmSpecInit == TableInit /\ AsyncInit /\ ErrIdle /\ CallIdle /\ RmInit /\ SearchIdle
RmSpec == RmSpecInit /\ [][RmNext]_vars

(***************************************************************************)
(* ResourceManager::search and the iteration of its ResourceSearchResult.  *)
(* The transport's matches are numbered 1..found in its order; the record  *)
(* search holds the iterator's fields (len, next), the transport's cursor  *)
(* in the find list, the frames of Iterator::next on the stack, the value  *)
(* the last frame returned and what the for loop has received.             *)
(***************************************************************************)
\* ResourceSearchResult::MAX_INTERFACE
MAX_INTERFACE == 4096

\* search expressions as bytes, with and without an interior NUL
SearchExprs == {<<63, 42>>, <<63, 0, 42>>}

\* statuses the transport may return from viFindRsrc and viFindNext
FindRsrcStatuses == {"VI_SUCCESS", "VI_ERROR_RSRC_NFOUND"}
FindNextStatuses == {"VI_SUCCESS", "VI_ERROR_RSRC_NFOUND"}

\* lengths of the descriptor viFindNext writes: an ordinary name, and one
\* that fills the buffer up to its last byte
DescLens == {20, MAX_INTERFACE - 1}

\* CStr::from_bytes_with_nul(&desc) over the whole zeroed buffer holding a
\* name of len bytes: Ok only when the first NUL is the last byte
from_bytes_with_nul(len) == len = MAX_INTERFACE - 1

SearchInit ==
    search \in { [pc |-> "call", expr |-> e, st |-> st, found |-> n,
                  len |-> 0, next |-> None, cursor |-> 0, stack |-> 0,
                  retval |-> None, yielded |-> <<>>]
                 : e \in SearchExprs, st \in FindRsrcStatuses, n \in 1..MaxFound }

\* ResourceManager::search(expr), with viFindRsrc returning search.st and
\* the count search.found
Search ==
    /\ search.pc = "call"
    /\ LET expr == CStringNew(search.expr)
           res == wrap_binding(Some(1), search.st, "VI_SUCCESS")
       IN
       IF expr.tag = "Err" \/ res.tag = "Err"
       THEN search' = [search EXCEPT !.pc = "err"]
       ELSE search' = [search EXCEPT !.pc = "loop", !.len = search.found - 1,
                                     !.next = Some(1), !.cursor = 1]
    /\ UNCHANGED <<tableVars, asyncVars, errVars, callVars, rmVars>>

\* ResourceSearchResult::advance, with viFindNext returning st and a
\* descriptor of desc bytes: <<the Result's tag, the iterator afterwards>>
advance(it, st, desc) ==
    IF it.len = 0
    THEN <<"Ok", it>>
    ELSE IF wrap_binding(Some(1), st, "VI_SUCCESS").tag = "Err"
         THEN <<"Err", it>>
         ELSE <<"Ok", [it EXCEPT !.next = IF from_bytes_with_nul(desc)
                                          THEN Some(it.cursor + 1) ELSE None,
                                 !.cursor = it.cursor + 1,
                                 !.len = it.len - 1]>>

\* `for device in matches`: the loop calls next(), and takes what the call
\* returned: an item, or None, which ends the loop
ForLoop ==
    /\ search.pc \in {"loop", "returned"}
    /\ IF search.pc = "loop"
       THEN search' = [search EXCEPT !.pc = "enter", !.stack = 1]
       ELSE IF search.retval = None
            THEN search' = [search EXCEPT !.pc = "done"]
            ELSE search' = [search EXCEPT !.pc = "loop",
                                          !.yielded = Append(@, search.retval[1])]
    /\ UNCHANGED <<tableVars, asyncVars, errVars, callVars, rmVars>>

\* the frame on top of the stack goes back to its caller with value v
Return(it, v) ==
    [it EXCEPT !.retval = v, !.stack = @ - 1,
               !.pc = IF it.stack = 1 THEN "returned" ELSE "resume"]

\* Iterator::next, one frame.  Entered: with len = 0 it returns None,
\* otherwise `self.next()` calls Iterator::next again, which needs a new
\* frame.  Resumed after that call returned: advance, then the value the
\* call returned, or None when advance failed.
IteratorNext(st, desc) ==
    /\ search.pc \in {"enter", "resume"}
    /\ IF search.pc = "enter"
       THEN IF search.len = 0
            THEN search' = Return(search, None)
            ELSE IF search.stack = MaxStack
                 THEN search' = [search EXCEPT !.pc = "overflow"]
                 ELSE search' = [search EXCEPT !.stack = @ + 1]
       ELSE LET next == search.retval
                adv == advance(search, st, desc)
            IN search' = Return(adv[2], IF adv[1] = "Ok" THEN next ELSE None)
    /\ UNCHANGED <<tableVars, asyncVars, errVars, callVars, rmVars>>

SearchNext ==
    \/ Search
    \/ ForLoop
    \/ \E st \in FindNextStatuses, desc \in DescLens : IteratorNext(st, desc)

SearchSpecInit == TableInit /\ AsyncInit /\ ErrIdle /\ CallIdle /\ RmIdle /\ SearchInit
SearchSpec == SearchSpecInit /\ [][SearchNext]_vars

(***************************************************************************)
(* Claims about the completion handler and its registration (Spec).        *)
(***************************************************************************)
\* the registration read_async / write_async installed for task i
OwnRegistration(i) == Registration(task[i].session, InstallContext(i))

\* this step is a call of the handler of registration r
HandlerFires(r) ==
    /\ r \in dispatch
    /\ dispatch' = dispatch \ {r}
    /\ handlers' = handlers

\* this step is the viUninstallHandler call of terminate_task for task i
UninstallStep(i) ==
    /\ task[i].pc \in {"term_uninstall", "drop_uninstall", "term_drop_uninstall"}
    /\ task'[i].pc # task[i].pc

\* C17: whenever the completion handler installed for a pending task fires,
\* the pair it records in the signal table is the task's own (session, job).
C17_HandlerRecordsOwnPair ==
    [][\A i \in Tasks :
          (task[i].pc = "pending" /\ HandlerFires(OwnRegistration(i)))
          => table' = signal_done(table, task[i].session, task[i].job_id)]_vars

\* a pending task whose own registration is due to be called
C17_Witness ==
    \E i \in Tasks : task[i].pc = "pending" /\ OwnRegistration(i) \in dispatch

\* C18: the uninstall issued when a task is terminated or dropped removes
\* the registration installed for that task, and no other.
C18_UninstallRemovesOwnRegistration ==
    [][\A i \in Tasks :
          (UninstallStep(i) /\ OwnRegistration(i) \in handlers)
          => handlers' = handlers \ {OwnRegistration(i)}]_vars

\* a task about to uninstall while its own registration is installed
C18_Witness ==
    \E i \in Tasks :
        /\ task[i].pc \in {"term_uninstall", "drop_uninstall", "term_drop_uninstall"}
        /\ OwnRegistration(i) \in handlers

(***************************************************************************)
(* Claims about the attribute codec and the conversion layer (CallSpec).   *)
(***************************************************************************)
\* the state after as_vi and then from_vi of the narrowed encoding
ReadBack == call[1] = "from_vi" /\ issued # <<>> /\ ret # None

\* C11: round trip: for every writable kind and every valid value v of it,
\* from_vi of as_vi(v), narrowed to the raw type, is v again.
C11_RoundTrip ==
    (ReadBack /\ ValidValue(call[2], issued[1][3])) => ret = Some(Some(issued[1][3]))

\* a valid value that came back: the cable length NotImplemented (-1)
C11_Witness ==
    /\ ReadBack
    /\ call[2] = "GpibHs488CblLen"
    /\ issued[1][3] = <<"NotImplemented">>
    /\ ret = Some(Some(<<"NotImplemented">>))

\* C12: from_vi returns None for every raw value outside the defined domain
\* of the attribute kind.
C12_FromViRejectsOutOfDomain ==
    (call[1] = "from_vi" /\ ret # None /\ ~InDomain(call[2], call[3])) => ret = Some(None)

\* an unmapped enum code was rejected: parity 99
C12_Witness ==
    /\ call = <<"from_vi", "AsrlParity", <<99>>>>
    /\ ret = Some(None)

\* C13: when the transport's get succeeds and the raw value does not decode,
\* get_attribute returns an attribute-not-supported error, never Ok.
C13_DecodeFailureIsAnError ==
    (/\ call[1] = "get_attribute"
     /\ ret # None
     /\ call[3] \in ERROR_OK
     /\ from_vi(call[2], call[4]) = None)
    => (ret[1].tag = "Err" /\ ret[1].error.status \in {"NsupAttr", "NsupAttrState"})

\* a transport failure was returned as its own error
C13_Witness ==
    /\ call[1] = "get_attribute"
    /\ call[3] = "VI_ERROR_NSUP_ATTR"
    /\ ret # None
    /\ ret[1].tag = "Err"
    /\ ret[1].error.status = "NsupAttr"

\* C14: no viSetAttribute is ever issued for a kind without AsViWritable, nor
\* for a kind that is read only in the transport's contract.
C14_NoSetForReadOnly ==
    \A n \in DOMAIN issued :
        issued[n][1] = "viSetAttribute"
        => (Writable(issued[n][2]) /\ issued[n][2] \notin ContractReadOnly)

\* a write the contract allows went to the transport
C14_Witness ==
    /\ call[1] = "set_attribute"
    /\ call[2] = "TmoValue"
    /\ ret = Some(Ok)
    /\ issued = <<<<"viSetAttribute", "TmoValue", as_vi("TmoValue", call[3])>>>>

\* the event types that are the discriminant of a variant of Event
RecognizedEventTypes == { EventDecl[n][2] : n \in DOMAIN EventDecl }

\* C15: c_handler returns VI_ERROR_INV_EVENT for an event type that is no
\* variant of Event, without calling handle or reading the user data; for a
\* variant it returns VI_SUCCESS when handle returns Ok, else the status of
\* the error handle returned.
C15_CHandlerFailsClosed ==
    (call[1] = "c_handler" /\ ret # None) =>
        IF call[2] \in RecognizedEventTypes
        THEN /\ call[3].tag = "Ok" => ret = Some("VI_SUCCESS")
             /\ call[3].tag = "Err" => ret = Some(ErrorTypeAsI32(call[3].error.status))
             /\ \E n \in DOMAIN issued : issued[n][1] = "handle"
        ELSE /\ ret = Some("VI_ERROR_INV_EVENT")
             /\ issued = <<>>

\* an event type Event does not name was refused
C15_Witness ==
    /\ call[1] = "c_handler"
    /\ call[2] = "VI_EVENT_ASRL_BREAK"
    /\ ret = Some("VI_ERROR_INV_EVENT")
    /\ issued = <<>>

\* a ViAttrState: four limbs
IsViAttrState(state) == Len(state) = 4 /\ \A n \in 1..4 : state[n] \in 0..65535

\* C19: as_vi yields a raw value for every value of every writable kind, and
\* the secondary address None is encoded as VI_NO_SEC_ADDR, which from_vi
\* decodes to None.
C19_AsViTotal ==
    /\ call[1] = "as_vi" => ENABLED AsViCall
    /\ (call[1] = "from_vi" /\ issued # <<>>) => IsViAttrState(issued[1][4])
    /\ (call[1] = "from_vi" /\ issued # <<>> /\ call[2] = "GpibSecondaryAddr"
        /\ issued[1][3] = <<"None">>)
       => /\ call[3] = Bits("u16", VI.VI_NO_SEC_ADDR)
          /\ ret # None => ret = Some(Some(<<"None">>))

\* None was encoded and read back
C19_Witness ==
    /\ ReadBack
    /\ call[2] = "GpibSecondaryAddr"
    /\ issued[1][3] = <<"None">>
    /\ ret = Some(Some(<<"None">>))

HasNul(name) == \E n \in DOMAIN name : name[n] = 0

\* a Duration <<secs, nanos>> of more than u32::MAX = 4294967295 milliseconds
AboveU32Millis(d) == d[1] > 4294967 \/ (d[1] = 4294967 /\ d[2] \div 1000000 > 295)

\* C20: Session::new returns an InvParameter error for a name with a NUL
\* byte, and a SystemError with a message for a timeout above u32::MAX
\* milliseconds, in both cases without calling viOpen.
C20_ConversionFailuresAreTyped ==
    (call[1] = "Session::new" /\ ret # None) =>
        /\ HasNul(call[2])
           => /\ ret[1].tag = "Err"
              /\ ret[1].error.status = "InvParameter"
              /\ issued = <<>>
        /\ (~HasNul(call[2]) /\ AboveU32Millis(call[3]))
           => /\ ret[1].tag = "Err"
              /\ ret[1].error.status = "SystemError"
              /\ ret[1].error.description # None
              /\ issued = <<>>

\* a timeout one millisecond above u32::MAX was refused
C20_Witness ==
    /\ call[1] = "Session::new"
    /\ call[3] = <<4294967, 296000000>>
    /\ ~HasNul(call[2])
    /\ ret # None
    /\ ret[1].tag = "Err"
    /\ ret[1].error.status = "SystemError"

(***************************************************************************)
(* Claims about the resource manager (RmSpec).                             *)
(***************************************************************************)
\* C16: all calls of ResourceManager::new return the same session id, and
\* the default resource manager is opened at most once, also when threads
\* call new() concurrently.
C16_OneResourceManager ==
    /\ Cardinality(rm.returned) <= 1
    /\ opened <= 1

\* one thread called new() twice: the second call returned the id of the first
C16_Witness ==
    \E t \in Callers :
        /\ rm.thr[t].calls = 2
        /\ rm.thr[t].pc = "out"
        /\ \A u \in Callers \ {t} : rm.thr[u].calls = 0
        /\ opened = 1
        /\ rm.returned = {1}
        /\ singleton = Some(1)

(***************************************************************************)
(* Claims about the errors of wrap_binding (ErrSpec).                      *)
(***************************************************************************)
\* C21: every Err of wrap_binding has a status that is a variant of
\* ErrorType; without a session it has no description; with a session it
\* has a description exactly when viStatusDesc returned a success status.
C21_ErrIsClassified ==
    (errOut # None /\ errOut[1].tag = "Err") =>
        LET e == errOut[1].error IN
        /\ e.status \in ErrorTypeVariants
        /\ errIn[2] = None => e.description = None
        /\ errIn[2] # None => (e.description # None <=> errIn[3] \in ViSuccessCodes)

\* an error with a session whose description fetch failed: classified, no description
C21_Witness ==
    /\ errIn = <<"VI_ERROR_TMO", Some(1), "VI_WARN_UNKNOWN_STATUS">>
    /\ errOut # None
    /\ errOut[1].tag = "Err"
    /\ errOut[1].error.status = "Tmo"
    /\ errOut[1].error.description = None
(***************************************************************************)
(* Claims about AsyncTask (Spec).                                          *)
(***************************************************************************)
\* C23: a poll looks at the completion signal before the deadline.  With a
\* completion recorded for the task's (session, job) it returns Completed
\* and removes the entry, even when the timeout has elapsed; it returns
\* TimedOut exactly when no completion is recorded and the elapsed time is
\* strictly greater than the timeout; a poll that returns Pending or
\* TimedOut leaves the signal table as it was.
C23_PollSignalBeforeDeadline ==
    [][\A i \in Tasks :
         Poll(i) =>
           LET pair == <<task[i].session, task[i].job_id>>
               elapsed == now - task[i].started
           IN  /\ pair \in table => (hist'[i].poll = "Completed" /\ table' = table \ {pair})
               /\ hist'[i].poll = "TimedOut" <=> (pair \notin table /\ elapsed > task[i].timeout)
               /\ (pair \notin table /\ elapsed = task[i].timeout) => hist'[i].poll = "Pending"
               /\ hist'[i].poll \in {"Pending", "TimedOut"} => table' = table]_vars

\* a task past its deadline whose last poll returned Completed and took the
\* entry, next to a task at exactly its deadline whose last poll was Pending
C23_Witness ==
    \E i, k \in Tasks :
        /\ task[i].pc = "pending" /\ hist[i].poll = "Completed"
        /\ now - task[i].started > task[i].timeout
        /\ <<task[i].session, task[i].job_id>> \notin table
        /\ task[k].pc = "pending" /\ hist[k].poll = "Pending"
        /\ now - task[k].started = task[k].timeout
        /\ xjob[k] = "done"
\* C24: when a job id is used again on a session while the table still
\* holds the (session, job) entry of an earlier operation, a poll of the new
\* task returns Completed although the new task's own job is still running.
C24_ReusedIdCompletesEarly ==
    [][\A i \in Tasks :
         (/\ Poll(i)
          /\ xjob[i] = "running"
          /\ <<task[i].session, task[i].job_id>> \in table
          /\ \E k \in Tasks \ {i} : /\ task[k].session = task[i].session
                                    /\ task[k].job_id = task[i].job_id
                                    /\ xjob[k] = "done")
            => hist'[i].poll = "Completed"]_vars

\* the later of two tasks with the same (session, job) has polled Completed
\* while its job is running; the earlier task's job is done
C24_Witness ==
    \E i, k \in Tasks :
        /\ k < i
        /\ task[k].session = task[i].session /\ task[k].job_id = task[i].job_id
        /\ task[k].pc # "none" /\ xjob[k] = "done"
        /\ task[i].pc = "pending" /\ xjob[i] = "running"
        /\ hist[i].poll = "Completed"
\* no completion event can reach the table any more: no handler call is due
\* and every other task has been started and its job is over
NoEventToCome(i) ==
    /\ dispatch = {}
    /\ \A k \in Tasks \ {i} : task[k].pc # "none" /\ xjob[k] \notin {"running", "aborted"}

\* C25: no completion is lost, whenever the transport completes the job
\* after it was started.  When read_async / write_async returns the task of a
\* job that has already completed, and no further event can arrive, the
\* completion is in the signal table for the task's polls to find.
C25_NoCompletionLost ==
    [][\A i \in Tasks :
         (/\ task[i].pc = "started" /\ task'[i].pc = "pending"
          /\ xjob[i] = "done"
          /\ NoEventToCome(i))
            => <<task[i].session, task[i].job_id>> \in table']_vars

\* the job completed after the handler was installed and events were
\* enabled, and a poll within the timeout returned Completed
C25_Witness ==
    \E i \in Tasks :
        /\ task[i].pc = "pending" /\ xjob[i] = "done"
        /\ enabled[task[i].session]
        /\ now - task[i].started <= task[i].timeout
        /\ hist[i].poll = "Completed"
        /\ \A k \in Tasks \ {i} : task[k].pc = "none"
\* where a task is between the abort and the uninstall of terminate_task
UninstallPcs == {"term_uninstall", "drop_uninstall", "term_drop_uninstall"}

\* C26: in terminate() and in drop the handler is uninstalled only after
\* the abort succeeded.  A failed abort leaves the installed handlers as
\* they were and does not go on to the uninstall; terminate() returns the
\* abort's error and drop discards it.  No handler is removed except by a
\* task whose abort succeeded.
C26_UninstallOnlyAfterAbort ==
    [][/\ \A i \in Tasks :
            task'[i].pc # task[i].pc =>
              \A st \in {"VI_SUCCESS", "VI_ERROR_INV_JOB_ID"} :
                (TerminateAbort(i, st) \/ DropAbort(i, st)) =>
                   /\ handlers' = handlers
                   /\ task'[i].pc \in UninstallPcs <=> st \in ViSuccessCodes
                   /\ (TerminateAbort(i, st) /\ st \notin ViSuccessCodes)
                         => (task'[i].pc = "term_ret" /\ hist'[i].term = ErrorTypeFrom(st))
                   /\ (DropAbort(i, st) /\ st \notin ViSuccessCodes)
                         => (task'[i].pc = "dropped" /\ hist'[i].term = "None")
       /\ handlers' # handlers /\ handlers' \subseteq handlers
            => \E i \in Tasks : task[i].pc \in UninstallPcs /\ task'[i].pc \notin UninstallPcs
       /\ \A i \in Tasks :
            (task'[i].pc \in UninstallPcs /\ task[i].pc \notin UninstallPcs)
               => \E st \in {"VI_SUCCESS"} : TerminateAbort(i, st) \/ DropAbort(i, st)]_vars

\* terminate() of a task whose job had finished is about to return the
\* abort's error, and the handler the task installed is still installed
C26_Witness ==
    \E i \in Tasks :
        /\ task[i].pc = "term_ret"
        /\ xjob[i] = "done"
        /\ hist[i].term = "InvJobId"
        /\ OwnRegistration(i) \in handlers
\* C27: when a task has been terminated or dropped the signal table holds
\* no entry for its (session, job): the step that ends the task does not
\* leave behind a completion recorded earlier and never taken by a poll.
C27_NoEntryAfterTermination ==
    [][\A i \in Tasks :
         (task[i].pc # "dropped" /\ task'[i].pc = "dropped")
            => <<task[i].session, task[i].job_id>> \notin table']_vars

\* a task whose completion was taken by a poll has been dropped, and the
\* table is empty
C27_Witness ==
    \E i \in Tasks :
        /\ task[i].pc = "dropped"
        /\ xjob[i] = "done"
        /\ enabled[task[i].session]
        /\ table = {}
        /\ \A k \in Tasks \ {i} : task[k].pc = "none"
\* C29: when read_async / write_async returns an error no job started by
\* the call is left outstanding: after a failed handler install the job the
\* call started is not running any more.
C29_NoJobLeftAfterError ==
    \A i \in Tasks : task[i].pc = "failed" => xjob[i] # "running"

(***************************************************************************)
(* Claims about the session's attribute and message calls (CallSpec).      *)
(***************************************************************************)
\* Duration a is not longer than Duration b
DurationLeq(a, b) == a[2] < b[2] \/ (a[2] = b[2] /\ a[3] <= b[3])

\* C22: after set_attribute(TmoValue(d)) and get_attribute::<TmoValue>()
\* the duration read is the timeout in effect on the session, and it is not
\* smaller than d, for every d the writer accepts.
C22_TmoReadBackNotSmaller ==
    (call[1] = "get TmoValue" /\ ret # None) =>
        /\ ret[1].value = <<"Duration">> \o from_millis(call[3])
        /\ DurationLeq(call[2], ret[1].value)

\* two seconds written and two seconds read back
C22_Witness ==
    /\ call = <<"get TmoValue", <<"Duration", 2, 0>>, <<2000, 0>>>>
    /\ issued = <<<<"viSetAttribute", "TmoValue", <<2000, 0, 0, 0>>>>, <<"viGetAttribute", "TmoValue">>>>
    /\ ret = Some(OkValue(<<"Duration", 2, 0>>))

\* the strings of the write_all list whose viWrite would fail
FailingWrites == { n \in DOMAIN call[2] : call[2][n] \notin ViSuccessCodes }

\* C30: write_all writes the strings in list order and stops at the first
\* failing write: when it returns an error exactly the strings before the
\* failing one were written with success, the failing one was attempted and
\* none after it; when it returns Ok every string was written.  query issues
\* no read when its write fails.
C30_StopsAtFirstFailure ==
    /\ call[1] = "write_all" =>
          /\ \A n \in DOMAIN issued : issued[n] = <<"viWrite", n>>
          /\ \A n \in DOMAIN issued : \A m \in FailingWrites : n <= m
          /\ ret # None =>
                IF FailingWrites = {}
                THEN ret = Some(Ok) /\ Len(issued) = Len(call[2])
                ELSE /\ ret[1].tag = "Err"
                     /\ Len(issued) \in FailingWrites
    /\ call[1] = "query" =>
          /\ \A n \in DOMAIN issued : issued[n][1] = IF n = 1 THEN "viWrite" ELSE "viRead"
          /\ call[2] \notin ViSuccessCodes =>
                /\ Len(issued) <= 1
                /\ issued # <<>> => (ret # None /\ ret[1].tag = "Err")

\* write_all of three strings returned the error of the second: two writes
\* were issued
C30_Witness ==
    /\ call = <<"write_all", <<"VI_SUCCESS", "VI_ERROR_TMO", "VI_SUCCESS">>>>
    /\ issued = <<<<"viWrite", 1>>, <<"viWrite", 2>>>>
    /\ ret # None
    /\ ret[1].tag = "Err"
    /\ ret[1].error.status = "SystemError"

(***************************************************************************)
(* Claim about the search iterator (SearchSpec).                           *)
(***************************************************************************)
\* C28: the loop over the result of a search that found n >= 1 resources
\* ends, having received each of the n names once, in the transport's
\* order: the iteration does not run out of stack, and when the loop has
\* ended it has received the names 1..n.
C28_YieldsEachNameOnce ==
    /\ search.pc # "overflow"
    /\ search.pc = "done" => search.yielded = [k \in 1..search.found |-> k]

\* the loop over a search that found two resources is inside nested calls
\* of Iterator::next
C28_Witness ==
    /\ search.pc = "enter"
    /\ search.found = 2
    /\ search.stack = 3
    /\ search.yielded = <<>>
====
